---- MODULE Spec2Model ----
(***************************************************************************)
(* Model of kafka/sarama_client.go: the SaramaClient pub/sub multiplexer.  *)
(*                                                                         *)
(* Every critical section of lockTopicToConsumerChannelMap is one atomic   *)
(* step.  Goroutines (API callers, startConsumers, consumption loops,      *)
(* dispatchToConsumers, the per-channel senders) interleave freely between *)
(* those steps.  A Go runtime panic ends the process: panicMsg records it   *)
(* and no action is enabled afterwards.                                    *)
(***************************************************************************)
EXTENDS Integers, Sequences, FiniteSets, TLC

\* ------------------------------------------------------------------ bounds
NumProcs == 2         \* concurrent API caller goroutines
MaxCalls == 3         \* API calls made in one run
MaxLiveCalls == 5     \* API calls made in one run of LiveSpec
MaxEvents == 1        \* broker-side events (foreign records, errors, notifications)
NumPartitions == 2    \* partitions the broker reports for each topic
MaxId == 1            \* envelope ids 0..MaxId

Topics == {"T1", "T2"}
Procs == 1..NumProcs

\* consumerType values (sarama_client.go:315, :326); any other value is unknown
PartitionConsumer == "PartitionConsumer"
GroupCustomer == "GroupCustomer"
UnknownConsumer == "Unknown"

\* ------------------------------------------------------- envelope encoding
\* An envelope is modelled by its id field.  proto.Marshal writes field 1 as
\* the tag byte 8 followed by the varint; the zero value encodes to nothing.
Envelopes == [id : 0..MaxId]
NotProto == [notProto |-> TRUE]
Payloads == Envelopes \cup {NotProto}

Marshal(e) == IF e.id = 0 THEN <<>> ELSE <<8, e.id>>

DecodeError == [decodeError |-> TRUE]
Unmarshal(b) ==
    IF b = <<>> THEN [id |-> 0]
    ELSE IF Len(b) = 2 /\ b[1] = 8 /\ b[2] \in 1..127 THEN [id |-> b[2]]
    ELSE DecodeError

\* a record no envelope encodes to (truncated field), written by a foreign producer
Garbage == <<8>>
Foreign == [foreign |-> TRUE]

\* ------------------------------------------------------------ sequences
Range(s) == {s[i] : i \in 1..Len(s)}

Swap(s, i, j) == [s EXCEPT ![i] = s[j], ![j] = s[i]]

IndexOf(s, x) ==
    IF x \in Range(s) THEN CHOOSE i \in 1..Len(s) : s[i] = x /\ \A j \in 1..(i-1) : s[j] # x
    ELSE 0

\* ------------------------------------------------------------------ state
VARIABLES
    consumerType,               \* sc.consumerType, fixed by the options
    cAdmin, producer, consumer, \* handles: [created, closes]
    groupConsumer,              \* sc.groupConsumer: a consumer id, 0 when nil
    doneCh,                     \* -1 when nil, else the number of buffered signals (capacity 1)
    startResult,                \* "none" before Start, then "ok" or the step that failed
    topicToConsumerChannelMap,  \* topic -> consumerChannels object id, 0 when absent
    heap,                       \* the consumerChannels objects: [consumers, channels]
    chanClosed,                 \* per subscriber channel: has close() run on it
    received,                   \* per subscriber channel: what its subscriber has received
    brokerConsumers,            \* the broker-level consumers ever created
    running,                    \* per consumer: consumption loops inside their select
    exitedNil,                  \* per consumer: loops that left on a nil message
    exitedDone,                 \* per consumer: loops that left on the shutdown signal
    starters,                   \* pending "go sc.startConsumers(topic)"
    dispatches,                 \* pending "go sc.dispatchToConsumers(cc, icm)"
    senders,                    \* pending "go func(c) { c <- protoMessage }(ch)"
    producerInput,              \* records handed to sc.producer.Input()
    marked,                     \* delivery numbers passed to MarkOffset
    pc, ptopic,                 \* per API caller: position and topic argument
    ret,                        \* what the last completed API call returned
    callsLeft, eventsLeft,      \* remaining budget of API calls / broker events
    nextSeq,                    \* next broker delivery number
    preStop,                    \* per consumer: loops that were running at the last "doneCh <- 1" and still are
    stopsDone,                  \* Stop calls that have returned
    stopsBefore,                \* per API caller in Stop: stopsDone when it called Stop
    panicMsg                    \* "" while the process runs, else the runtime panic

\* the LogicalAgent of unnamed/part_000: its port loader and its orderedEvents
VARIABLES
    ports,                      \* agent.portLoader: per port number "absent" or the OfpPort state
    portLock,                   \* per port number: the caller holding its handle, 0 when free
    last,                       \* orderedEvents.last: a channel id, 0 when nil
    positions,                  \* the queuePositions ever assigned, with their goroutine's progress
    closedNext,                 \* the channels close() has run on
    sentEvents,                 \* the SendChangeEvent calls, in the order they were made
    portChanges,                \* the creations, updates and deletions of ports, in order
    apc,                        \* per agent caller: the call it is in and its position there
    agentCallsLeft              \* remaining budget of agent calls

agentVars == <<ports, portLock, last, positions, closedNext, sentEvents, portChanges, apc, agentCallsLeft>>
clientVars == <<consumerType, cAdmin, producer, consumer, groupConsumer, doneCh, startResult>>
registryVars == <<topicToConsumerChannelMap, heap, chanClosed, received, brokerConsumers>>
taskVars == <<running, exitedNil, exitedDone, starters, dispatches, senders, producerInput, marked>>
callVars == <<pc, ptopic, ret, callsLeft, eventsLeft, nextSeq, panicMsg>>
histVars == <<preStop, stopsDone, stopsBefore>>
vars == <<clientVars, registryVars, taskVars, callVars, histVars, agentVars>>

NilHandle == [created |-> FALSE, closes |-> 0]
NoRet == [op |-> "none", topic |-> "", ch |-> 0, err |-> ""]

ChanIds == 1..Len(chanClosed)
ConsumerIds == 1..Len(brokerConsumers)
Registered == {t \in Topics : topicToConsumerChannelMap[t] # 0}
Entry(t) == heap[topicToConsumerChannelMap[t]]
IsClosed(c) == brokerConsumers[c].closes > 0

CloseOfClosedChannel == "close of closed channel"
SendOnClosedChannel == "send on closed channel"
CloseFailed == "handle close failed"
Alive == panicMsg = ""

\* -------------------------------------------------------- registry helpers
\* removeChannel without the swap: ch is closed and the last element dropped
removeChannelNoSwap(channels, ch) ==
    IF IndexOf(channels, ch) = 0
    THEN [result |-> channels, array |-> channels, closed |-> 0]
    ELSE [result |-> SubSeq(channels, 1, Len(channels) - 1), array |-> channels, closed |-> ch]

\* removeChannel (787-798): the first occurrence of ch is swapped with the
\* last element of the backing array and closed; the shortened slice is the
\* result.  "array" is the backing array as the call leaves it.
removeChannel(channels, ch) ==
    LET i == IndexOf(channels, ch) IN
    IF i = 0
    THEN [result |-> channels, array |-> channels, closed |-> 0]
    ELSE LET sw == Swap(channels, i, Len(channels)) IN
         [result |-> SubSeq(sw, 1, Len(sw) - 1), array |-> sw, closed |-> ch]

\* close(channel): a second close panics.
closeChan(m, ch) ==
    IF ch = 0 THEN m
    ELSE IF m.closed[ch] THEN [m EXCEPT !.panic = CloseOfClosedChannel]
    ELSE [m EXCEPT !.closed[ch] = TRUE]

\* "for _, ch := range consumerCh.channels { removeChannel(consumerCh.channels, ch) }"
\* (487-490, 509-512): the range reads element i of the backing array at
\* iteration i, the result of removeChannel is dropped, so the slice keeps its
\* length while removeChannel permutes the array under the loop.
RECURSIVE clearChannels(_, _, _)
clearChannels(m, i, n) ==
    IF i > n \/ m.panic # "" THEN m
    ELSE LET r == removeChannel(m.array, m.array[i])
             m1 == closeChan(m, r.closed)
         IN clearChannels([m1 EXCEPT !.array = r.array], i + 1, n)

CloseOutcomes == {"ok", "unknown-topic", "error"}

\* closeConsumers (435-461): the error returned, given what each Close returned.
RECURSIVE closeConsumersErr(_, _, _)
closeConsumersErr(outcomes, i, err) ==
    IF i > Len(outcomes) THEN err
    ELSE closeConsumersErr(outcomes, i + 1,
            CASE outcomes[i] = "ok" -> err
              [] outcomes[i] = "unknown-topic" -> ""
              [] OTHER -> "close-error")

\* closeConsumers (435-461): Close is called on every consumer of the list;
\* outcomes[i] is what the Close of consumers[i] returns.
closeConsumers(bc, consumers, outcomes) ==
    [c \in DOMAIN bc |->
        IF c \in Range(consumers)
        THEN [bc[c] EXCEPT !.closes = @ + 1, !.result = outcomes[IndexOf(consumers, c)]]
        ELSE bc[c]]

\* --------------------------------------------------- logical agent: state
NumPorts == 2         \* logical port numbers 1..NumPorts
NumAgents == 2        \* goroutines calling the LogicalAgent concurrently
MaxAgentCalls == 3    \* LogicalAgent calls made in one run

PortNos == 1..NumPorts
Agents == 1..NumAgents

AgentIdle == [op |-> "idle", cur |-> 0, todo |-> {}, dev |-> "", old |-> ""]

\* a LogicalAgent after construction: no port loaded, no handle locked, the
\* zero orderedEvents (last is nil)
NewLogicalAgent ==
    /\ ports = [p \in PortNos |-> "absent"]
    /\ portLock = [p \in PortNos |-> 0]
    /\ last = 0
    /\ positions = <<>>
    /\ closedNext = {}
    /\ sentEvents = <<>>
    /\ portChanges = <<>>
    /\ apc = [a \in Agents |-> AgentIdle]
    /\ agentCallsLeft = MaxAgentCalls

\* ------------------------------------------------------------- lifecycle
Init ==
    /\ consumerType \in {PartitionConsumer, GroupCustomer, UnknownConsumer}
    /\ cAdmin = NilHandle /\ producer = NilHandle /\ consumer = NilHandle
    /\ groupConsumer = 0
    /\ doneCh = -1
    /\ startResult = "none"
    /\ topicToConsumerChannelMap = [t \in Topics |-> 0]
    /\ heap = <<>> /\ chanClosed = <<>> /\ received = <<>> /\ brokerConsumers = <<>>
    /\ running = <<>> /\ exitedNil = <<>> /\ exitedDone = <<>>
    /\ starters = [t \in Topics |-> 0]
    /\ dispatches = {} /\ senders = {}
    /\ producerInput = <<>> /\ marked = {}
    /\ pc = [p \in Procs |-> "idle"] /\ ptopic = [p \in Procs |-> ""]
    /\ ret = NoRet
    /\ callsLeft = MaxCalls /\ eventsLeft = MaxEvents /\ nextSeq = 1
    /\ panicMsg = ""
    /\ preStop = <<>> /\ stopsDone = 0 /\ stopsBefore = [p \in Procs |-> 0]
    /\ NewLogicalAgent

StartOutcomes == {"ok", "admin", "producer", "consumer"}

\* a Start that gives back what it created when a later creation fails
StartCreatesWithRollback(outcome) ==
    IF outcome = "ok" THEN {"cAdmin", "producer", "consumer"} ELSE {}

\* Start (191-206): the handles set by createClusterAdmin, createPublisher and
\* createConsumer, called in this order up to the first one that fails.
StartCreates(outcome) ==
    CASE outcome = "admin" -> {}
      [] outcome = "producer" -> {"cAdmin"}
      [] outcome = "consumer" -> {"cAdmin", "producer"}
      [] outcome = "ok" -> {"cAdmin", "producer", "consumer"}

\* Start (182-212): doneCh first, then admin, producer, consumer; the first
\* failure returns at once and keeps what was created.
Start(outcome) ==
    /\ Alive /\ startResult = "none"
    /\ doneCh' = 0
    /\ cAdmin' = [cAdmin EXCEPT !.created = "cAdmin" \in StartCreates(outcome)]
    /\ producer' = [producer EXCEPT !.created = "producer" \in StartCreates(outcome)]
    /\ consumer' = [consumer EXCEPT !.created = "consumer" \in StartCreates(outcome)]
    /\ startResult' = outcome
    /\ ret' = [NoRet EXCEPT !.op = "Start", !.err = IF outcome = "ok" THEN "" ELSE outcome]
    /\ UNCHANGED histVars
    /\ UNCHANGED <<agentVars, consumerType, groupConsumer, registryVars, taskVars,
                   pc, ptopic, callsLeft, eventsLeft, nextSeq, panicMsg>>

\* An API call is made by the lowest idle caller.
IdleProc(p) == pc[p] = "idle" /\ \A q \in 1..(p - 1) : pc[q] # "idle"
CanCall(p) == Alive /\ startResult = "ok" /\ callsLeft > 0 /\ IdleProc(p)

\* ------------------------------------------------------------- Subscribe
\* Subscribe (298-308): the lookup, getConsumerChannel (414-422).
SubscribeLookupTarget(t) == IF topicToConsumerChannelMap[t] # 0 THEN "sub_add" ELSE "sub_setup"

SubscribeBegin(p, t) ==
    /\ CanCall(p)
    /\ pc' = [pc EXCEPT ![p] = SubscribeLookupTarget(t)]
    /\ ptopic' = [ptopic EXCEPT ![p] = t]
    /\ callsLeft' = callsLeft - 1
    /\ UNCHANGED histVars
    /\ UNCHANGED <<agentVars, clientVars, registryVars, taskVars, ret, eventsLeft, nextSeq, panicMsg>>

\* addChannelToConsumerChannelMap (424-432): appended when the entry exists,
\* otherwise only a warning.
addChannelToConsumerChannelMap(h, t, ch) ==
    IF topicToConsumerChannelMap[t] # 0
    THEN [h EXCEPT ![topicToConsumerChannelMap[t]].channels = Append(@, ch)]
    ELSE h

\* Subscribe (303-307): a new channel for an already subscribed topic.
SubscribeAdd(p) ==
    /\ Alive /\ pc[p] = "sub_add"
    /\ LET ch == Len(chanClosed) + 1 IN
        /\ chanClosed' = Append(chanClosed, FALSE)
        /\ received' = Append(received, <<>>)
        /\ heap' = addChannelToConsumerChannelMap(heap, ptopic[p], ch)
        /\ ret' = [op |-> "Subscribe", topic |-> ptopic[p], ch |-> ch, err |-> ""]
    /\ pc' = [pc EXCEPT ![p] = "idle"]
    /\ UNCHANGED histVars
    /\ UNCHANGED <<agentVars, clientVars, topicToConsumerChannelMap, brokerConsumers, taskVars,
                   ptopic, callsLeft, eventsLeft, nextSeq, panicMsg>>

NewConsumer(t, kind, part, cc) ==
    [topic |-> t, kind |-> kind, partition |-> part, cc |-> cc, closes |-> 0, result |-> "none",
     messages |-> <<>>, errors |-> 0, notifications |-> 0]

\* createPartionConsumers (767-785) / createGroupConsumer (569-597): the
\* consumers created when the broker lets the first n creations succeed.
createConsumers(t, n, cc) ==
    IF consumerType = PartitionConsumer
    THEN [i \in 1..n |-> NewConsumer(t, "partition", i, cc)]
    ELSE [i \in 1..n |-> NewConsumer(t, "group", 0, cc)]

\* how many consumers a successful setup creates
SetupSize == IF consumerType = PartitionConsumer THEN NumPartitions ELSE 1

\* a setup that goes on to register also for an unknown consumer type
SetupOkAnyType(n) == n = SetupSize

\* Subscribe (316-335): the setup succeeds when the consumer type is known and
\* the broker refuses none of the consumers.
SetupOk(n) == consumerType # UnknownConsumer /\ n = SetupSize

\* addTopicToConsumerChannelMap (398-404): registered only when absent.
addTopicToConsumerChannelMap(map, t, cc) ==
    IF map[t] = 0 THEN [map EXCEPT ![t] = cc] ELSE map

\* Subscribe (310-338) with setupPartitionConsumerChannel (709-738) or
\* setupGroupConsumerChannel (742-765): n consumers are created before the
\* broker refuses one (n = SetupSize: none refused).  The consumers and the
\* consumerChannels object are fresh, so creating them and registering them
\* is one step.
SubscribeSetup(p, n) ==
    /\ Alive /\ pc[p] = "sub_setup"
    /\ n \in 0..SetupSize
    /\ pc' = [pc EXCEPT ![p] = "idle"]
    /\ LET t == ptopic[p]
           ok == SetupOk(n)
           cc == Len(heap) + 1
           ch == Len(chanClosed) + 1
           first == Len(brokerConsumers) + 1
           made == IF consumerType = UnknownConsumer THEN <<>>
                   ELSE createConsumers(t, n, IF ok THEN cc ELSE 0)
       IN
        /\ brokerConsumers' = brokerConsumers \o made
        /\ running' = running \o [i \in 1..Len(made) |-> 0]
        /\ exitedNil' = exitedNil \o [i \in 1..Len(made) |-> 0]
        /\ exitedDone' = exitedDone \o [i \in 1..Len(made) |-> 0]
        /\ preStop' = preStop \o [i \in 1..Len(made) |-> 0]
        /\ groupConsumer' = IF consumerType = GroupCustomer /\ n = 1 THEN first ELSE groupConsumer
        /\ IF ok
           THEN /\ heap' = Append(heap, [consumers |-> [i \in 1..n |-> first + i - 1],
                                          channels |-> <<ch>>])
                /\ chanClosed' = Append(chanClosed, FALSE)
                /\ received' = Append(received, <<>>)
                /\ topicToConsumerChannelMap' = addTopicToConsumerChannelMap(topicToConsumerChannelMap, t, cc)
                /\ starters' = [starters EXCEPT ![t] = @ + 1]
                /\ ret' = [op |-> "Subscribe", topic |-> t, ch |-> ch, err |-> ""]
           ELSE /\ UNCHANGED <<heap, chanClosed, received, topicToConsumerChannelMap, starters>>
                /\ ret' = [op |-> "Subscribe", topic |-> t, ch |-> 0,
                           err |-> IF consumerType = UnknownConsumer
                                   THEN "unknown-consumer-type" ELSE "broker-error"]
    /\ UNCHANGED <<stopsDone, stopsBefore>>
    /\ UNCHANGED <<agentVars, consumerType, cAdmin, producer, consumer, doneCh, startResult,
                   dispatches, senders, producerInput, marked,
                   ptopic, callsLeft, eventsLeft, nextSeq, panicMsg>>

\* startConsumers (686-705): one loop per consumer of the entry found for the
\* topic; nothing when the topic has no entry.
StartConsumers(t) ==
    /\ Alive /\ starters[t] > 0
    /\ starters' = [starters EXCEPT ![t] = @ - 1]
    /\ running' = IF topicToConsumerChannelMap[t] = 0 THEN running
                  ELSE [c \in DOMAIN running |->
                          IF c \in Range(Entry(t).consumers) THEN running[c] + 1 ELSE running[c]]
    /\ UNCHANGED histVars
    /\ UNCHANGED <<agentVars, clientVars, registryVars, exitedNil, exitedDone, dispatches, senders,
                   producerInput, marked, callVars>>

\* ---------------------------------------------- UnSubscribe, DeleteTopic
\* The registry as the critical sections below read and write it.
RegistryState ==
    [map |-> topicToConsumerChannelMap, heap |-> heap, closed |-> chanClosed,
     bc |-> brokerConsumers, panic |-> panicMsg, err |-> ""]

SetRegistry(st) ==
    /\ topicToConsumerChannelMap' = st.map
    /\ heap' = st.heap
    /\ chanClosed' = st.closed
    /\ brokerConsumers' = st.bc
    /\ panicMsg' = st.panic

CloseResults(st, t) ==
    IF st.map[t] = 0 THEN {<<>>}
    ELSE [1..Len(st.heap[st.map[t]].consumers) -> CloseOutcomes]

\* removeChannelFromConsumerChannelMap that reports no error for a topic
\* without an entry
removeChannelIgnoringMissing(st, t, ch, outcomes) ==
    IF st.map[t] = 0 THEN st
    ELSE LET cc == st.map[t]
             r == removeChannel(st.heap[cc].channels, ch)
             m == closeChan([closed |-> st.closed, panic |-> st.panic], r.closed)
             st1 == [st EXCEPT !.heap[cc].channels = IF m.panic = "" THEN r.result ELSE r.array,
                               !.closed = m.closed, !.panic = m.panic]
         IN IF m.panic # "" THEN st1
            ELSE IF Len(r.result) = 0
            THEN [st1 EXCEPT !.bc = closeConsumers(st.bc, st.heap[cc].consumers, outcomes),
                             !.map[t] = 0,
                             !.err = closeConsumersErr(outcomes, 1, "")]
            ELSE st1

\* removeChannelFromConsumerChannelMap without its "delete" (475): the entry
\* stays registered after its last channel is removed.
removeChannelKeepingEntry(st, t, ch, outcomes) ==
    IF st.map[t] = 0 THEN [st EXCEPT !.err = "topic-does-not-exist"]
    ELSE LET cc == st.map[t]
             r == removeChannel(st.heap[cc].channels, ch)
             m == closeChan([closed |-> st.closed, panic |-> st.panic], r.closed)
             st1 == [st EXCEPT !.heap[cc].channels = IF m.panic = "" THEN r.result ELSE r.array,
                               !.closed = m.closed, !.panic = m.panic]
         IN IF m.panic # "" THEN st1
            ELSE IF Len(r.result) = 0
            THEN [st1 EXCEPT !.bc = closeConsumers(st.bc, st.heap[cc].consumers, outcomes),
                             !.err = closeConsumersErr(outcomes, 1, "")]
            ELSE st1

\* removeChannelFromConsumerChannelMap (463-481)
removeChannelFromConsumerChannelMap(st, t, ch, outcomes) ==
    IF st.map[t] = 0 THEN [st EXCEPT !.err = "topic-does-not-exist"]
    ELSE LET cc == st.map[t]
             r == removeChannel(st.heap[cc].channels, ch)
             m == closeChan([closed |-> st.closed, panic |-> st.panic], r.closed)
             st1 == [st EXCEPT !.heap[cc].channels = IF m.panic = "" THEN r.result ELSE r.array,
                               !.closed = m.closed, !.panic = m.panic]
         IN IF m.panic # "" THEN st1
            ELSE IF Len(r.result) = 0
            THEN [st1 EXCEPT !.bc = closeConsumers(st.bc, st.heap[cc].consumers, outcomes),
                             !.map[t] = 0,
                             !.err = closeConsumersErr(outcomes, 1, "")]
            ELSE st1

\* clearTopicFromConsumerChannelMap (483-502); also the body of the loop of
\* clearConsumerChannelMap (508-518).
clearTopicFromConsumerChannelMap(st, t, outcomes) ==
    IF st.map[t] = 0 THEN st
    ELSE LET cc == st.map[t]
             m == clearChannels([array |-> st.heap[cc].channels, closed |-> st.closed,
                                 panic |-> st.panic], 1, Len(st.heap[cc].channels))
             st1 == [st EXCEPT !.heap[cc].channels = m.array,
                               !.closed = m.closed, !.panic = m.panic]
         IN IF m.panic # "" THEN st1
            ELSE [st1 EXCEPT !.bc = closeConsumers(st.bc, st.heap[cc].consumers, outcomes),
                             !.map[t] = 0,
                             !.err = closeConsumersErr(outcomes, 1, "")]

\* clearConsumerChannelMap (504-520): the entries in the order the map
\* iteration yields them, outs[t] being what the Close calls of the entry of t
\* return; the error of the last entry that returned one is returned (and
\* dropped by Stop).
RECURSIVE clearConsumerChannelMap(_, _, _)
clearConsumerChannelMap(st, order, outs) ==
    IF order = <<>> \/ st.panic # "" THEN st
    ELSE LET st1 == clearTopicFromConsumerChannelMap(st, Head(order), outs[Head(order)])
         IN clearConsumerChannelMap(
                [st1 EXCEPT !.err = IF st1.err # "" THEN st1.err ELSE st.err],
                Tail(order), outs)

\* what the Close calls made by clearConsumerChannelMap return: for each entry
\* every Close succeeds or the first one returns an error
ClearResults ==
    {outs \in [Topics -> UNION {[1..n -> {"ok", "error"}] : n \in 0..NumPartitions}] :
        \A t \in Topics :
            /\ Len(outs[t]) = IF topicToConsumerChannelMap[t] = 0 THEN 0 ELSE Len(Entry(t).consumers)
            /\ \A i \in 2..Len(outs[t]) : outs[t][i] = "ok"}

Orders(S) == {o \in [1..Cardinality(S) -> S] : \A i, j \in DOMAIN o : i # j => o[i] # o[j]}

\* UnSubscribe (342-346)
UnSubscribe(p, t, ch, outcomes) ==
    /\ CanCall(p)
    /\ ch \in ChanIds
    /\ outcomes \in CloseResults(RegistryState, t)
    /\ LET st == removeChannelFromConsumerChannelMap(RegistryState, t, ch, outcomes) IN
        /\ SetRegistry(st)
        /\ ret' = IF st.panic = ""
                  THEN [op |-> "UnSubscribe", topic |-> t, ch |-> ch, err |-> st.err] ELSE ret
    /\ callsLeft' = callsLeft - 1
    /\ UNCHANGED histVars
    /\ UNCHANGED <<agentVars, clientVars, received, taskVars, pc, ptopic, eventsLeft, nextSeq>>

\* DeleteTopic that returns the broker's error also when the broker says the
\* topic is unknown
DeleteTopicStrict(st, t, broker, outcomes) ==
    IF broker = "ok"
    THEN clearTopicFromConsumerChannelMap(st, t, outcomes)
    ELSE [st EXCEPT !.err = "delete-error"]

\* DeleteTopic (276-294), given what cAdmin.DeleteTopic returned
DeleteTopicResult(st, t, broker, outcomes) ==
    IF broker = "ok"
    THEN clearTopicFromConsumerChannelMap(st, t, outcomes)
    ELSE [st EXCEPT !.err = IF broker = "error" THEN "delete-error" ELSE ""]

\* DeleteTopic (276-294): "unknown-topic" from the broker returns nil without
\* clearing; another broker error is returned; otherwise the topic is cleared.
DeleteTopic(p, t, broker, outcomes) ==
    /\ CanCall(p)
    /\ broker \in CloseOutcomes
    /\ outcomes \in CloseResults(RegistryState, t)
    /\ LET st == DeleteTopicResult(RegistryState, t, broker, outcomes) IN
        /\ SetRegistry(st)
        /\ ret' = IF st.panic = ""
                  THEN [op |-> "DeleteTopic", topic |-> t, ch |-> 0, err |-> st.err] ELSE ret
    /\ callsLeft' = callsLeft - 1
    /\ UNCHANGED histVars
    /\ UNCHANGED <<agentVars, clientVars, received, taskVars, pc, ptopic, eventsLeft, nextSeq>>

\* ------------------------------------------------------------------ Stop
\* Stop (214-218): the call is made; it then waits to put one value on doneCh.
StopBegin(p) ==
    /\ Alive /\ startResult # "none" /\ callsLeft > 0 /\ IdleProc(p)
    /\ pc' = [pc EXCEPT ![p] = "stop_send"]
    /\ callsLeft' = callsLeft - 1
    /\ stopsBefore' = [stopsBefore EXCEPT ![p] = stopsDone]
    /\ UNCHANGED <<preStop, stopsDone>>
    /\ UNCHANGED <<agentVars, clientVars, registryVars, taskVars, ptopic, ret, eventsLeft, nextSeq, panicMsg>>

\* "sc.doneCh <- 1" (218): doneCh has capacity 1, the send waits while it is full.
StopSend(p) ==
    /\ Alive /\ pc[p] = "stop_send"
    /\ doneCh = 0
    /\ doneCh' = 1
    /\ pc' = [pc EXCEPT ![p] = "stop_close"]
    /\ preStop' = running
    /\ UNCHANGED <<stopsDone, stopsBefore>>
    /\ UNCHANGED <<agentVars, consumerType, cAdmin, producer, consumer, groupConsumer, startResult,
                   registryVars, taskVars, ptopic, ret, callsLeft, eventsLeft, nextSeq, panicMsg>>

StopHandles == <<"producer", "consumer", "groupConsumer", "cAdmin">>
\* a Stop that closes its handles without testing them for nil
HandleSetUnchecked(h) == TRUE

\* Stop (220, 226, 232, 238): the "!= nil" tests.
HandleSet(h) ==
    CASE h = "producer" -> producer.created
      [] h = "consumer" -> consumer.created
      [] h = "groupConsumer" -> groupConsumer # 0
      [] h = "cAdmin" -> cAdmin.created

\* the handles Stop calls Close on when the Close of handle number "fail"
\* returns an error (5: none does)
ClosedByStop(fail) == {StopHandles[i] : i \in {j \in 1..4 : j <= fail /\ HandleSet(StopHandles[j])}}

closeHandle(h, on) == IF on THEN [h EXCEPT !.closes = @ + 1] ELSE h

\* Stop (220-242): every non-nil handle is closed, in order; a Close that
\* returns an error panics.
StopClose(p, fail) ==
    /\ Alive /\ pc[p] = "stop_close"
    /\ fail \in 1..5
    /\ fail <= 4 => HandleSet(StopHandles[fail])
    /\ producer' = closeHandle(producer, "producer" \in ClosedByStop(fail))
    /\ consumer' = closeHandle(consumer, "consumer" \in ClosedByStop(fail))
    /\ cAdmin' = closeHandle(cAdmin, "cAdmin" \in ClosedByStop(fail))
    /\ brokerConsumers' = IF "groupConsumer" \in ClosedByStop(fail)
                          THEN closeConsumers(brokerConsumers, <<groupConsumer>>,
                                              <<IF fail = 3 THEN "error" ELSE "ok">>)
                          ELSE brokerConsumers
    /\ panicMsg' = IF fail <= 4 THEN CloseFailed ELSE panicMsg
    /\ pc' = [pc EXCEPT ![p] = IF fail <= 4 THEN "stop_close" ELSE "stop_clear"]
    /\ UNCHANGED histVars
    /\ UNCHANGED <<agentVars, consumerType, groupConsumer, doneCh, startResult,
                   topicToConsumerChannelMap, heap, chanClosed, received, taskVars,
                   ptopic, ret, callsLeft, eventsLeft, nextSeq>>

\* Stop (244-247): the registry is cleared and Stop returns.
StopClear(p, order, outs) ==
    /\ Alive /\ pc[p] = "stop_clear"
    /\ order \in Orders(Registered)
    /\ outs \in ClearResults
    /\ LET st == clearConsumerChannelMap(RegistryState, order, outs) IN
        /\ SetRegistry(st)
        /\ pc' = [pc EXCEPT ![p] = IF st.panic = "" THEN "idle" ELSE "stop_clear"]
        /\ ret' = IF st.panic = "" THEN [NoRet EXCEPT !.op = "Stop"] ELSE ret
        /\ stopsDone' = IF st.panic = "" THEN stopsDone + 1 ELSE stopsDone
    /\ UNCHANGED <<preStop, stopsBefore>>
    /\ UNCHANGED <<agentVars, clientVars, received, taskVars, ptopic, callsLeft, eventsLeft, nextSeq>>

\* ------------------------------------------------------- producer, broker
\* Send (349-380): a payload that is no proto message is refused; otherwise
\* the marshalled record is put on the producer's input.
\* Send that enqueues a record also for a payload it refuses
SendEnqueuesAnyway(msg, t) ==
    [err |-> IF msg = NotProto THEN "not-a-proto-msg" ELSE "",
     input |-> Append(producerInput, [topic |-> t, sent |-> msg,
                                      value |-> IF msg = NotProto THEN <<>> ELSE Marshal(msg)])]

SendResult(msg, t) ==
    IF msg = NotProto
    THEN [err |-> "not-a-proto-msg", input |-> producerInput]
    ELSE [err |-> "", input |-> Append(producerInput, [topic |-> t, value |-> Marshal(msg), sent |-> msg])]

Send(p, msg, t) ==
    /\ CanCall(p)
    /\ msg \in Payloads
    /\ producer.closes = 0
    /\ producerInput' = SendResult(msg, t).input
    /\ ret' = [op |-> "Send", topic |-> t, ch |-> 0, err |-> SendResult(msg, t).err]
    /\ callsLeft' = callsLeft - 1
    /\ UNCHANGED histVars
    /\ UNCHANGED <<agentVars, clientVars, registryVars, running, exitedNil, exitedDone, starters,
                   dispatches, senders, marked, pc, ptopic, eventsLeft, nextSeq, panicMsg>>

OpenConsumers(t) == {c \in ConsumerIds : brokerConsumers[c].topic = t /\ ~IsClosed(c)}

\* The consumers a record of topic t, written to partition part, reaches: every
\* open partition consumer of that partition, or one member of the group.
Targets(t, part) ==
    IF consumerType = GroupCustomer
    THEN IF OpenConsumers(t) = {} THEN {{}} ELSE {{c} : c \in OpenConsumers(t)}
    ELSE {{c \in OpenConsumers(t) : brokerConsumers[c].partition = part}}

Deliver(targets, rec) ==
    [c \in DOMAIN brokerConsumers |->
        IF c \in targets
        THEN [brokerConsumers[c] EXCEPT !.messages = Append(@, [seq |-> nextSeq, value |-> rec.value, sent |-> rec.sent])]
        ELSE brokerConsumers[c]]

\* The broker takes the next record of the producer and makes it available
\* to the consumers of its topic.
BrokerDeliver(part, targets) ==
    /\ Alive /\ producerInput # <<>>
    /\ part \in 1..NumPartitions
    /\ targets \in Targets(Head(producerInput).topic, part)
    /\ brokerConsumers' = Deliver(targets, Head(producerInput))
    /\ producerInput' = Tail(producerInput)
    /\ nextSeq' = nextSeq + 1
    /\ UNCHANGED histVars
    /\ UNCHANGED <<agentVars, clientVars, topicToConsumerChannelMap, heap, chanClosed, received,
                   running, exitedNil, exitedDone, starters, dispatches, senders, marked,
                   pc, ptopic, ret, callsLeft, eventsLeft, panicMsg>>

\* Another producer writes a record that is no envelope.
BrokerForeign(t, part, targets) ==
    /\ Alive /\ eventsLeft > 0 /\ startResult = "ok"
    /\ part \in 1..NumPartitions
    /\ targets \in Targets(t, part) /\ targets # {}
    /\ brokerConsumers' = Deliver(targets, [value |-> Garbage, sent |-> Foreign])
    /\ nextSeq' = nextSeq + 1
    /\ eventsLeft' = eventsLeft - 1
    /\ UNCHANGED histVars
    /\ UNCHANGED <<agentVars, clientVars, topicToConsumerChannelMap, heap, chanClosed, received,
                   taskVars, pc, ptopic, ret, callsLeft, panicMsg>>

\* The broker puts an error (kind "errors") or a rebalance notification (kind
\* "notifications", group consumers only) on a consumer's stream.
BrokerSignal(c, kind) ==
    /\ Alive /\ eventsLeft > 0
    /\ c \in ConsumerIds /\ ~IsClosed(c) /\ running[c] > 0
    /\ \/ kind = "errors" /\ brokerConsumers[c].errors = 0
          /\ brokerConsumers' = [brokerConsumers EXCEPT ![c].errors = 1]
       \/ kind = "notifications" /\ brokerConsumers[c].kind = "group"
          /\ brokerConsumers[c].notifications = 0
          /\ brokerConsumers' = [brokerConsumers EXCEPT ![c].notifications = 1]
    /\ eventsLeft' = eventsLeft - 1
    /\ UNCHANGED histVars
    /\ UNCHANGED <<agentVars, clientVars, topicToConsumerChannelMap, heap, chanClosed, received,
                   taskVars, pc, ptopic, ret, callsLeft, nextSeq, panicMsg>>

\* ------------------------------------------------------ consumption loops
\* consumeFromAPartition (617-624) / consumeGroupMessages (653-660): an error
\* is logged and the loop selects again.
LoopError(c) ==
    /\ Alive /\ c \in ConsumerIds /\ running[c] > 0
    /\ brokerConsumers[c].errors > 0
    /\ brokerConsumers' = [brokerConsumers EXCEPT ![c].errors = 0]
    /\ UNCHANGED histVars
    /\ UNCHANGED <<agentVars, clientVars, topicToConsumerChannelMap, heap, chanClosed, received,
                   taskVars, callVars>>

\* consumeGroupMessages (676-677): a notification is logged.
LoopNotification(c) ==
    /\ Alive /\ c \in ConsumerIds /\ running[c] > 0
    /\ brokerConsumers[c].notifications > 0
    /\ brokerConsumers' = [brokerConsumers EXCEPT ![c].notifications = 0]
    /\ UNCHANGED histVars
    /\ UNCHANGED <<agentVars, clientVars, topicToConsumerChannelMap, heap, chanClosed, received,
                   taskVars, callVars>>

\* what the loop starts for a record it took from the stream (632-638, 668-675)
Decoded(c, m) ==
    IF Unmarshal(m.value) = DecodeError THEN {}
    ELSE {[c |-> c, cc |-> brokerConsumers[c].cc, seq |-> m.seq, env |-> Unmarshal(m.value), sent |-> m.sent]}

\* a group loop that never marks an offset
MarkedByNone(c, m) == {}

\* a group loop that marks the offset of every record it takes
MarkedByAny(c, m) == IF brokerConsumers[c].kind = "group" THEN {m.seq} ELSE {}

\* consumeGroupMessages (668-674): MarkOffset after the hand-off of a record
\* that decodes; consumeFromAPartition marks nothing.
MarkedBy(c, m) ==
    IF Unmarshal(m.value) # DecodeError /\ brokerConsumers[c].kind = "group" THEN {m.seq} ELSE {}

\* a loop that ends on a record that does not decode
LoopMessageEndsOnGarbage(c) ==
    /\ Alive /\ c \in ConsumerIds /\ running[c] > 0
    /\ brokerConsumers[c].messages # <<>>
    /\ LET m == Head(brokerConsumers[c].messages) IN
        /\ dispatches' = dispatches \cup Decoded(c, m)
        /\ marked' = marked \cup MarkedBy(c, m)
        /\ running' = IF Unmarshal(m.value) = DecodeError
                      THEN [running EXCEPT ![c] = @ - 1] ELSE running
    /\ brokerConsumers' = [brokerConsumers EXCEPT ![c].messages = Tail(@)]
    /\ UNCHANGED histVars
    /\ UNCHANGED <<agentVars, clientVars, topicToConsumerChannelMap, heap, chanClosed, received,
                   exitedNil, exitedDone, starters, senders, producerInput, callVars>>

\* consumeFromAPartition (625-638) / consumeGroupMessages (661-675): a record
\* is decoded and handed to "go sc.dispatchToConsumers"; a record that does not
\* decode is dropped; the group loop marks the offset after the hand-off.
LoopMessage(c) ==
    /\ Alive /\ c \in ConsumerIds /\ running[c] > 0
    /\ brokerConsumers[c].messages # <<>>
    /\ LET m == Head(brokerConsumers[c].messages) IN
        /\ dispatches' = dispatches \cup Decoded(c, m)
        /\ marked' = marked \cup MarkedBy(c, m)
    /\ brokerConsumers' = [brokerConsumers EXCEPT ![c].messages = Tail(@)]
    /\ UNCHANGED histVars
    /\ UNCHANGED <<agentVars, clientVars, topicToConsumerChannelMap, heap, chanClosed, received,
                   running, exitedNil, exitedDone, starters, senders, producerInput, callVars>>

\* The loop that leaves is one of those that were running at the last
\* "doneCh <- 1" (old) or one started since.
LeavesAs(c, old) ==
    /\ old \in BOOLEAN
    /\ IF old THEN preStop[c] > 0 ELSE running[c] > preStop[c]
    /\ preStop' = IF old THEN [preStop EXCEPT ![c] = @ - 1] ELSE preStop

\* a loop that selects again after a nil message
LoopNilContinues(c, old) ==
    /\ Alive /\ c \in ConsumerIds /\ running[c] > 0
    /\ IsClosed(c)
    /\ old \in BOOLEAN
    /\ UNCHANGED vars

\* consumeFromAPartition (627-631) / consumeGroupMessages (663-667): the
\* message stream of a closed consumer yields nil and the loop ends.
LoopNil(c, old) ==
    /\ Alive /\ c \in ConsumerIds /\ running[c] > 0
    /\ IsClosed(c)
    /\ LeavesAs(c, old)
    /\ running' = [running EXCEPT ![c] = @ - 1]
    /\ exitedNil' = [exitedNil EXCEPT ![c] = @ + 1]
    /\ UNCHANGED <<stopsDone, stopsBefore>>
    /\ UNCHANGED <<agentVars, clientVars, registryVars, exitedDone, starters, dispatches, senders,
                   producerInput, marked, callVars>>

\* consumeFromAPartition (639-641) / consumeGroupMessages (678-680): the loop
\* takes the value off doneCh and ends.
LoopDone(c, old) ==
    /\ Alive /\ c \in ConsumerIds /\ running[c] > 0
    /\ doneCh = 1
    /\ LeavesAs(c, old)
    /\ doneCh' = 0
    /\ running' = [running EXCEPT ![c] = @ - 1]
    /\ exitedDone' = [exitedDone EXCEPT ![c] = @ + 1]
    /\ UNCHANGED <<stopsDone, stopsBefore>>
    /\ UNCHANGED <<agentVars, consumerType, cAdmin, producer, consumer, groupConsumer, startResult,
                   registryVars, exitedNil, starters, dispatches, senders,
                   producerInput, marked, callVars>>

\* ---------------------------------------------------------------- fan-out
\* dispatchToConsumers that serves only the first channel of the object
FanOutToFirst(d) ==
    {[ch |-> heap[d.cc].channels[i], c |-> d.c, seq |-> d.seq, env |-> d.env, sent |-> d.sent] :
        i \in {j \in DOMAIN heap[d.cc].channels : j = 1}}

\* dispatchToConsumers (601-610): under the lock, one sender per channel of
\* the consumerChannels object the loop was started with.
FanOut(d) ==
    {[ch |-> ch, c |-> d.c, seq |-> d.seq, env |-> d.env, sent |-> d.sent] : ch \in Range(heap[d.cc].channels)}

\* a fan-out that starts only when every earlier envelope has been received
DispatchAfterReceipt(d) ==
    /\ Alive /\ d \in dispatches
    /\ senders = {}
    /\ dispatches' = dispatches \ {d}
    /\ senders' = senders \cup FanOut(d)
    /\ UNCHANGED histVars
    /\ UNCHANGED <<agentVars, clientVars, registryVars, running, exitedNil, exitedDone, starters,
                   producerInput, marked, callVars>>

Dispatch(d) ==
    /\ Alive /\ d \in dispatches
    /\ dispatches' = dispatches \ {d}
    /\ senders' = senders \cup FanOut(d)
    /\ UNCHANGED histVars
    /\ UNCHANGED <<agentVars, clientVars, registryVars, running, exitedNil, exitedDone, starters,
                   producerInput, marked, callVars>>

\* a channel send that completes only when no earlier record waits for the channel
SenderSendInOrder(s) ==
    /\ Alive /\ s \in senders
    /\ \A o \in senders : o.ch = s.ch => o.seq >= s.seq
    /\ IF chanClosed[s.ch]
       THEN /\ panicMsg' = SendOnClosedChannel
            /\ UNCHANGED <<senders, received>>
       ELSE /\ received' = [received EXCEPT ![s.ch] = Append(@, [seq |-> s.seq, env |-> s.env, sent |-> s.sent])]
            /\ senders' = senders \ {s}
            /\ UNCHANGED panicMsg
    /\ UNCHANGED histVars
    /\ UNCHANGED <<agentVars, clientVars, topicToConsumerChannelMap, heap, chanClosed, brokerConsumers,
                   running, exitedNil, exitedDone, starters, dispatches, producerInput, marked,
                   pc, ptopic, ret, callsLeft, eventsLeft, nextSeq>>

\* "c <- protoMessage" (606-608): a send on a closed channel panics; otherwise
\* the subscriber receives the envelope.
SenderSend(s) ==
    /\ Alive /\ s \in senders
    /\ IF chanClosed[s.ch]
       THEN /\ panicMsg' = SendOnClosedChannel
            /\ UNCHANGED <<senders, received>>
       ELSE /\ received' = [received EXCEPT ![s.ch] = Append(@, [seq |-> s.seq, env |-> s.env, sent |-> s.sent])]
            /\ senders' = senders \ {s}
            /\ UNCHANGED panicMsg
    /\ UNCHANGED histVars
    /\ UNCHANGED <<agentVars, clientVars, topicToConsumerChannelMap, heap, chanClosed, brokerConsumers,
                   running, exitedNil, exitedDone, starters, dispatches, producerInput, marked,
                   pc, ptopic, ret, callsLeft, eventsLeft, nextSeq>>

\* ------------------------------------------------------------ specification
Next ==
    \/ \E o \in StartOutcomes : Start(o)
    \/ \E p \in Procs, t \in Topics : SubscribeBegin(p, t)
    \/ \E p \in Procs : SubscribeAdd(p)
    \/ \E p \in Procs, n \in 0..NumPartitions : SubscribeSetup(p, n)
    \/ \E t \in Topics : StartConsumers(t)
    \/ \E p \in Procs, t \in Topics, ch \in ChanIds :
          \E o \in CloseResults(RegistryState, t) : UnSubscribe(p, t, ch, o)
    \/ \E p \in Procs, t \in Topics, b \in CloseOutcomes :
          \E o \in CloseResults(RegistryState, t) : DeleteTopic(p, t, b, o)
    \/ \E p \in Procs : StopBegin(p)
    \/ \E p \in Procs : StopSend(p)
    \/ \E p \in Procs, f \in 1..5 : StopClose(p, f)
    \/ \E p \in Procs : \E o \in Orders(Registered), r \in ClearResults : StopClear(p, o, r)
    \/ \E p \in Procs, m \in Payloads, t \in Topics : Send(p, m, t)
    \/ \E part \in 1..NumPartitions :
          \E tg \in Targets(IF producerInput = <<>> THEN "T1" ELSE Head(producerInput).topic, part) :
             BrokerDeliver(part, tg)
    \/ \E t \in Topics, part \in 1..NumPartitions : \E tg \in Targets(t, part) : BrokerForeign(t, part, tg)
    \/ \E c \in ConsumerIds, k \in {"errors", "notifications"} : BrokerSignal(c, k)
    \/ \E c \in ConsumerIds : LoopError(c)
    \/ \E c \in ConsumerIds : LoopNotification(c)
    \/ \E c \in ConsumerIds : LoopMessage(c)
    \/ \E c \in ConsumerIds, old \in BOOLEAN : LoopNil(c, old)
    \/ \E c \in ConsumerIds, old \in BOOLEAN : LoopDone(c, old)
    \/ \E d \in dispatches : Dispatch(d)
    \/ \E s \in senders : SenderSend(s)

Spec == Init /\ [][Next]_vars

\* LiveSpec: a started client with partition consumers and one topic, a
\* broker that refuses nothing, and the scheduling the Go runtime gives:
\* every goroutine that can take a step eventually takes one, and a select
\* with a ready case eventually picks it.
LiveTopic == "T1"
AllOk(t) == [i \in 1..(IF topicToConsumerChannelMap[t] = 0 THEN 0 ELSE Len(Entry(t).consumers)) |-> "ok"]

InitLive ==
    /\ consumerType = PartitionConsumer
    /\ cAdmin = [created |-> TRUE, closes |-> 0]
    /\ producer = [created |-> TRUE, closes |-> 0]
    /\ consumer = [created |-> TRUE, closes |-> 0]
    /\ groupConsumer = 0
    /\ doneCh = 0
    /\ startResult = "ok"
    /\ topicToConsumerChannelMap = [t \in Topics |-> 0]
    /\ heap = <<>> /\ chanClosed = <<>> /\ received = <<>> /\ brokerConsumers = <<>>
    /\ running = <<>> /\ exitedNil = <<>> /\ exitedDone = <<>>
    /\ starters = [t \in Topics |-> 0]
    /\ dispatches = {} /\ senders = {}
    /\ producerInput = <<>> /\ marked = {}
    /\ pc = [p \in Procs |-> "idle"] /\ ptopic = [p \in Procs |-> ""]
    /\ ret = NoRet
    /\ callsLeft = MaxLiveCalls /\ eventsLeft = 0 /\ nextSeq = 1
    /\ panicMsg = ""
    /\ preStop = <<>> /\ stopsDone = 0 /\ stopsBefore = [p \in Procs |-> 0]
    /\ NewLogicalAgent

LiveCall ==
    \/ \E p \in Procs : SubscribeBegin(p, LiveTopic)
    \/ \E p \in Procs, ch \in ChanIds : UnSubscribe(p, LiveTopic, ch, AllOk(LiveTopic))
    \/ \E p \in Procs : DeleteTopic(p, LiveTopic, "ok", AllOk(LiveTopic))
    \/ \E p \in Procs : StopBegin(p)
    \/ \E p \in Procs, m \in Envelopes : Send(p, m, LiveTopic)

LiveSubscribe == \E p \in Procs : SubscribeAdd(p) \/ SubscribeSetup(p, SetupSize)
LiveStart == StartConsumers(LiveTopic)
LiveStop ==
    \E p \in Procs : StopSend(p) \/ StopClose(p, 5) \/ (\E o \in Orders(Registered) : StopClear(p, o, [t \in Topics |-> AllOk(t)]))
LiveBroker ==
    \E part \in 1..NumPartitions :
       \E tg \in Targets(LiveTopic, part) : BrokerDeliver(part, tg)
LiveLoopMessage == \E c \in ConsumerIds : LoopMessage(c)
LiveLoopNil == \E c \in ConsumerIds, old \in BOOLEAN : LoopNil(c, old)
LiveLoopDone == \E c \in ConsumerIds, old \in BOOLEAN : LoopDone(c, old)
LiveDispatch == \E d \in dispatches : Dispatch(d)
LiveSend == \E s \in senders : SenderSend(s)

NextLive ==
    \/ LiveCall
    \/ LiveSubscribe
    \/ LiveStart
    \/ LiveStop
    \/ LiveBroker
    \/ LiveLoopMessage
    \/ LiveLoopNil
    \/ LiveLoopDone
    \/ LiveDispatch
    \/ LiveSend

LiveSpec ==
    /\ InitLive /\ [][NextLive]_vars
    /\ WF_vars(LiveSubscribe) /\ WF_vars(LiveStart) /\ WF_vars(LiveStop)
    /\ WF_vars(LiveBroker) /\ WF_vars(LiveLoopMessage) /\ WF_vars(LiveLoopNil)
    /\ WF_vars(LiveLoopDone) /\ WF_vars(LiveDispatch) /\ WF_vars(LiveSend)

\* ------------------------------------------------- logical agent: actions
\* unnamed/part_000.  A step of the model is what one goroutine does between
\* two operations that another goroutine can observe: taking or releasing a
\* port handle, a call of assignQueuePosition (one critical section of
\* e.mutex), a receive on qp.prev, a close of qp.next.  The port loader is
\* modelled at the calls the agent makes on it: a handle is held by one
\* goroutine at a time, from Lock / LockOrCreate to Unlock.

\* the device a port belongs to: port 1 is the NNI port of the root device
RootDevice == "olt"
DeviceOf(p) == IF p = 1 THEN RootDevice ELSE "onu"
Devices == {DeviceOf(p) : p \in PortNos}
NNIPorts == {p \in PortNos : DeviceOf(p) = RootDevice}
UNIPorts == PortNos \ NNIPorts

OfpPortStates == {"LIVE", "LINK_DOWN"}
OperStatuses == {"ACTIVE", "UNKNOWN"}
KvOutcomes == {"ok", "error"}

Present == {p \in PortNos : ports[p] # "absent"}

\* Lock and LockOrCreate of the port loader return when no other goroutine
\* holds the port's handle
HandleFree(p) == portLock[p] = 0

\* clonePortSetState (165-178): LIVE for ACTIVE, LINK_DOWN for any other status
clonePortSetState(oldPort, state) ==
    IF state = "ACTIVE" THEN "LIVE" ELSE "LINK_DOWN"

\* send() calls made so far on queue positions
SendCalls == Cardinality({k \in DOMAIN positions : positions[k].called # 0})

\* an assignQueuePosition that does not chain to the previous position
assignQueuePositionUnchained == [prev |-> 0, next |-> Len(positions) + 1]

\* assignQueuePosition (410-421): prev is the old e.last, next a new channel
assignQueuePosition == [prev |-> last, next |-> Len(positions) + 1]

\* the queuePosition is assigned (e.last = next) and its event is on record;
\* st is "held" while the holder has not called send, "waiting" once it has
Queue(reason, p, desc, st) ==
    LET qp == assignQueuePosition
    IN /\ last' = qp.next
       /\ positions' = Append(positions,
              [prev |-> qp.prev, next |-> qp.next, reason |-> reason, portNo |-> p,
               desc |-> desc, st |-> st,
               called |-> IF st = "waiting" THEN SendCalls + 1 ELSE 0, todo |-> {}])

\* orderedEvents.send (401-404): assignQueuePosition, then "go qp.send"
orderedEventsSend(reason, p, desc) == Queue(reason, p, desc, "waiting")

AgentCanCall(a) == apc[a].op = "idle" /\ agentCallsLeft > 0

\* portLoader.LockOrCreate and what follows it up to assignQueuePosition
\* (320-330, 371-381): an error returns at once, an existing port is locked
\* and released by the deferred Unlock of "return nil", a created port stays
\* locked
LockOrCreate(a, p, desc, outcome) ==
    /\ AgentCanCall(a) /\ HandleFree(p)
    /\ agentCallsLeft' = agentCallsLeft - 1
    /\ IF ports[p] = "absent" /\ outcome = "ok"
       THEN /\ ports' = [ports EXCEPT ![p] = desc]
            /\ portLock' = [portLock EXCEPT ![p] = a]
            /\ portChanges' = Append(portChanges, [portNo |-> p, reason |-> "ADD"])
            /\ apc' = [apc EXCEPT ![a] = [AgentIdle EXCEPT !.op = "add", !.cur = p]]
       ELSE UNCHANGED <<ports, portLock, portChanges, apc>>
    /\ UNCHANGED <<last, positions, closedNext, sentEvents>>
    /\ UNCHANGED <<clientVars, registryVars, taskVars, callVars, histVars>>

\* addNNILogicalPort (303-330)
addNNILogicalPort(a, p, desc, outcome) ==
    /\ p \in NNIPorts
    /\ LockOrCreate(a, p, desc, outcome)

\* addUNILogicalPort (353-381): nothing is done for a device that is not
\* enabled and active
addUNILogicalPort(a, p, ready, desc, outcome) ==
    /\ p \in UNIPorts
    /\ IF ready THEN LockOrCreate(a, p, desc, outcome)
       ELSE /\ AgentCanCall(a)
            /\ agentCallsLeft' = agentCallsLeft - 1
            /\ UNCHANGED <<ports, portLock, last, positions, closedNext, sentEvents, portChanges, apc>>
            /\ UNCHANGED <<clientVars, registryVars, taskVars, callVars, histVars>>

\* add*LogicalPort (332-335, 383-386): assignQueuePosition under the port's
\* handle, then "go func" that will call send on the position
AddAssign(a) ==
    /\ apc[a].op = "add"
    /\ Queue("ADD", apc[a].cur, ports[apc[a].cur], "held")
    /\ apc' = [apc EXCEPT ![a].op = "addReturn"]
    /\ UNCHANGED <<ports, portLock, closedNext, sentEvents, portChanges, agentCallsLeft>>
    /\ UNCHANGED <<clientVars, registryVars, taskVars, callVars, histVars>>

\* add*LogicalPort (346, 397): "return nil" runs the deferred Unlock
AddReturn(a) ==
    /\ apc[a].op = "addReturn"
    /\ portLock' = [portLock EXCEPT ![apc[a].cur] = 0]
    /\ apc' = [apc EXCEPT ![a] = AgentIdle]
    /\ UNCHANGED <<ports, last, positions, closedNext, sentEvents, portChanges, agentCallsLeft>>
    /\ UNCHANGED <<clientVars, registryVars, taskVars, callVars, histVars>>

\* the goroutine of add*LogicalPort, listLogicalDevicePorts (34-45): ListIDs
GoListIDs(k) ==
    /\ positions[k].st = "held"
    /\ positions' = [positions EXCEPT ![k].st = "listing", ![k].todo = Present]
    /\ UNCHANGED <<ports, portLock, last, closedNext, sentEvents, portChanges, apc, agentCallsLeft>>
    /\ UNCHANGED <<clientVars, registryVars, taskVars, callVars, histVars>>

\* listLogicalDevicePorts (38-43): Lock, GetReadOnly and Unlock of one port
GoListPort(k, p) ==
    /\ positions[k].st = "listing" /\ p \in positions[k].todo
    /\ HandleFree(p)
    /\ positions' = [positions EXCEPT ![k].todo = @ \ {p}]
    /\ UNCHANGED <<ports, portLock, last, closedNext, sentEvents, portChanges, apc, agentCallsLeft>>
    /\ UNCHANGED <<clientVars, registryVars, taskVars, callVars, histVars>>

\* the goroutine of add*LogicalPort (337-344, 388-395): updateRoutes has
\* returned, with an error or without, and queuePosition.send is called
GoSend(k) ==
    /\ positions[k].st = "listing" /\ positions[k].todo = {}
    /\ positions' = [positions EXCEPT ![k].st = "waiting", ![k].called = SendCalls + 1]
    /\ UNCHANGED <<ports, portLock, last, closedNext, sentEvents, portChanges, apc, agentCallsLeft>>
    /\ UNCHANGED <<clientVars, registryVars, taskVars, callVars, histVars>>

\* queuePosition.send (435-439): "<-qp.prev" unless prev is nil, then the
\* call of SendChangeEvent
QpWait(k) ==
    /\ positions[k].st = "waiting"
    /\ positions[k].prev = 0 \/ positions[k].prev \in closedNext
    /\ positions' = [positions EXCEPT ![k].st = "calling"]
    /\ sentEvents' = Append(sentEvents, k)
    /\ UNCHANGED <<ports, portLock, last, closedNext, portChanges, apc, agentCallsLeft>>
    /\ UNCHANGED <<clientVars, registryVars, taskVars, callVars, histVars>>

\* a send that returns without notifying the next in line
QpNotifyNobody(k) ==
    /\ positions[k].st = "calling"
    /\ positions' = [positions EXCEPT ![k].st = "done"]
    /\ UNCHANGED <<ports, portLock, last, closedNext, sentEvents, portChanges, apc, agentCallsLeft>>
    /\ UNCHANGED <<clientVars, registryVars, taskVars, callVars, histVars>>

\* queuePosition.send (439-440): SendChangeEvent has returned, close(qp.next)
QpNotify(k) ==
    /\ positions[k].st = "calling"
    /\ closedNext' = closedNext \cup {positions[k].next}
    /\ positions' = [positions EXCEPT ![k].st = "done"]
    /\ UNCHANGED <<ports, portLock, last, sentEvents, portChanges, apc, agentCallsLeft>>
    /\ UNCHANGED <<clientVars, registryVars, taskVars, callVars, histVars>>

\* updatePortState (148-155): Lock; a port that does not exist is NotFound
UpdateLock(a, p) ==
    /\ AgentCanCall(a) /\ HandleFree(p)
    /\ agentCallsLeft' = agentCallsLeft - 1
    /\ IF p \in Present
       THEN /\ portLock' = [portLock EXCEPT ![p] = a]
            /\ apc' = [apc EXCEPT ![a] = [AgentIdle EXCEPT !.op = "update", !.cur = p]]
       ELSE UNCHANGED <<portLock, apc>>
    /\ UNCHANGED <<ports, last, positions, closedNext, sentEvents, portChanges>>
    /\ UNCHANGED <<clientVars, registryVars, taskVars, callVars, histVars>>

\* updatePortState (157-162): Update, orderedEvents.send of MODIFY, and the
\* deferred Unlock; a failed Update queues nothing
UpdateSend(a, operStatus, outcome) ==
    /\ apc[a].op = "update"
    /\ LET p == apc[a].cur
           newPort == clonePortSetState(ports[p], operStatus)
       IN /\ IF outcome = "ok"
             THEN /\ ports' = [ports EXCEPT ![p] = newPort]
                  /\ portChanges' = Append(portChanges, [portNo |-> p, reason |-> "MODIFY"])
                  /\ orderedEventsSend("MODIFY", p, newPort)
             ELSE UNCHANGED <<ports, portChanges, last, positions>>
          /\ portLock' = [portLock EXCEPT ![p] = 0]
    /\ apc' = [apc EXCEPT ![a] = AgentIdle]
    /\ UNCHANGED <<closedNext, sentEvents, agentCallsLeft>>
    /\ UNCHANGED <<clientVars, registryVars, taskVars, callVars, histVars>>

\* deleteLogicalPorts (230): ListIDsForDevice
DeleteBegin(a, dev) ==
    /\ AgentCanCall(a)
    /\ agentCallsLeft' = agentCallsLeft - 1
    /\ apc' = [apc EXCEPT ![a] = [AgentIdle EXCEPT !.op = "delete", !.dev = dev,
                                     !.todo = {p \in Present : DeviceOf(p) = dev}]]
    /\ UNCHANGED <<ports, portLock, last, positions, closedNext, sentEvents, portChanges>>
    /\ UNCHANGED <<clientVars, registryVars, taskVars, callVars, histVars>>

\* deleteLogicalPorts (231), deleteAllLogicalPorts (203): Lock of the next
\* port of the range; a port that is gone by now is skipped
LockNext(a, p, op) ==
    /\ apc[a].op = op /\ p \in apc[a].todo
    /\ HandleFree(p)
    /\ IF p \in Present
       THEN /\ portLock' = [portLock EXCEPT ![p] = a]
            /\ apc' = [apc EXCEPT ![a].op = IF op = "delete" THEN "deleteLocked" ELSE "deleteAllLocked", ![a].cur = p, ![a].old = ports[p]]
       ELSE /\ apc' = [apc EXCEPT ![a].todo = @ \ {p}]
            /\ UNCHANGED portLock
    /\ UNCHANGED <<ports, last, positions, closedNext, sentEvents, portChanges, agentCallsLeft>>
    /\ UNCHANGED <<clientVars, registryVars, taskVars, callVars, histVars>>

DeleteLock(a, p) ==
    /\ apc[a].op = "delete"
    /\ LockNext(a, p, "delete")

\* deleteLogicalPorts (233-243): for a port of this device Delete, then
\* orderedEvents.send of DELETE, then Unlock; a failed Delete unlocks and
\* returns the error
DeleteSend(a, outcome) ==
    /\ apc[a].op = "deleteLocked"
    /\ LET p == apc[a].cur
       IN /\ IF DeviceOf(p) # apc[a].dev
             THEN /\ apc' = [apc EXCEPT ![a].op = "delete", ![a].todo = @ \ {p}]
                  /\ UNCHANGED <<ports, portChanges, last, positions>>
             ELSE IF outcome = "ok"
             THEN /\ ports' = [ports EXCEPT ![p] = "absent"]
                  /\ portChanges' = Append(portChanges, [portNo |-> p, reason |-> "DELETE"])
                  /\ orderedEventsSend("DELETE", p, apc[a].old)
                  /\ apc' = [apc EXCEPT ![a].op = "delete", ![a].todo = @ \ {p}]
             ELSE /\ apc' = [apc EXCEPT ![a] = AgentIdle]
                  /\ UNCHANGED <<ports, portChanges, last, positions>>
          /\ portLock' = [portLock EXCEPT ![p] = 0]
    /\ UNCHANGED <<closedNext, sentEvents, agentCallsLeft>>
    /\ UNCHANGED <<clientVars, registryVars, taskVars, callVars, histVars>>

\* deleteLogicalPorts (246-252), deleteAllLogicalPorts (216-222): the range
\* is over, "go buildRoutes" and "return nil"
RangeOver(a, op) ==
    /\ apc[a].op = op /\ apc[a].todo = {}
    /\ apc' = [apc EXCEPT ![a] = AgentIdle]
    /\ UNCHANGED <<ports, portLock, last, positions, closedNext, sentEvents, portChanges, agentCallsLeft>>
    /\ UNCHANGED <<clientVars, registryVars, taskVars, callVars, histVars>>

DeleteEnd(a) ==
    /\ apc[a].op = "delete"
    /\ RangeOver(a, "delete")

\* deleteAllLogicalPorts (201): ListIDs
DeleteAllBegin(a) ==
    /\ AgentCanCall(a)
    /\ agentCallsLeft' = agentCallsLeft - 1
    /\ apc' = [apc EXCEPT ![a] = [AgentIdle EXCEPT !.op = "deleteAll", !.todo = Present]]
    /\ UNCHANGED <<ports, portLock, last, positions, closedNext, sentEvents, portChanges>>
    /\ UNCHANGED <<clientVars, registryVars, taskVars, callVars, histVars>>

DeleteAllLock(a, p) ==
    /\ apc[a].op = "deleteAll"
    /\ LockNext(a, p, "deleteAll")

\* deleteAllLogicalPorts (204-210): GetReadOnly, Delete and Unlock; a failed
\* Delete returns the error
DeleteAllDelete(a, outcome) ==
    /\ apc[a].op = "deleteAllLocked"
    /\ LET p == apc[a].cur
       IN /\ IF outcome = "ok"
             THEN /\ ports' = [ports EXCEPT ![p] = "absent"]
                  /\ portChanges' = Append(portChanges, [portNo |-> p, reason |-> "DELETE"])
                  /\ apc' = [apc EXCEPT ![a].op = "deleteAllUnlocked"]
             ELSE /\ apc' = [apc EXCEPT ![a] = AgentIdle]
                  /\ UNCHANGED <<ports, portChanges>>
          /\ portLock' = [portLock EXCEPT ![p] = 0]
    /\ UNCHANGED <<last, positions, closedNext, sentEvents, agentCallsLeft>>
    /\ UNCHANGED <<clientVars, registryVars, taskVars, callVars, histVars>>

\* deleteAllLogicalPorts (212): orderedEvents.send of DELETE, after the Unlock
DeleteAllSend(a) ==
    /\ apc[a].op = "deleteAllUnlocked"
    /\ orderedEventsSend("DELETE", apc[a].cur, apc[a].old)
    /\ apc' = [apc EXCEPT ![a].op = "deleteAll", ![a].todo = @ \ {apc[a].cur}]
    /\ UNCHANGED <<ports, portLock, closedNext, sentEvents, portChanges, agentCallsLeft>>
    /\ UNCHANGED <<clientVars, registryVars, taskVars, callVars, histVars>>

DeleteAllEnd(a) ==
    /\ apc[a].op = "deleteAll"
    /\ RangeOver(a, "deleteAll")

\* a client that is never constructed: the agent runs on its own
NoSaramaClient ==
    /\ consumerType = PartitionConsumer
    /\ cAdmin = NilHandle /\ producer = NilHandle /\ consumer = NilHandle
    /\ groupConsumer = 0
    /\ doneCh = -1
    /\ startResult = "none"
    /\ topicToConsumerChannelMap = [t \in Topics |-> 0]
    /\ heap = <<>> /\ chanClosed = <<>> /\ received = <<>> /\ brokerConsumers = <<>>
    /\ running = <<>> /\ exitedNil = <<>> /\ exitedDone = <<>>
    /\ starters = [t \in Topics |-> 0]
    /\ dispatches = {} /\ senders = {}
    /\ producerInput = <<>> /\ marked = {}
    /\ pc = [p \in Procs |-> "idle"] /\ ptopic = [p \in Procs |-> ""]
    /\ ret = NoRet
    /\ callsLeft = 0 /\ eventsLeft = 0 /\ nextSeq = 1
    /\ panicMsg = ""
    /\ preStop = <<>> /\ stopsDone = 0 /\ stopsBefore = [p \in Procs |-> 0]

InitAgent == NoSaramaClient /\ NewLogicalAgent

NextAgent ==
    \/ \E a \in Agents, p \in PortNos, d \in OfpPortStates, o \in KvOutcomes : addNNILogicalPort(a, p, d, o)
    \/ \E a \in Agents, p \in PortNos, r \in BOOLEAN, d \in OfpPortStates, o \in KvOutcomes :
          addUNILogicalPort(a, p, r, d, o)
    \/ \E a \in Agents : AddAssign(a)
    \/ \E a \in Agents : AddReturn(a)
    \/ \E k \in DOMAIN positions : GoListIDs(k)
    \/ \E k \in DOMAIN positions, p \in PortNos : GoListPort(k, p)
    \/ \E k \in DOMAIN positions : GoSend(k)
    \/ \E k \in DOMAIN positions : QpWait(k)
    \/ \E k \in DOMAIN positions : QpNotify(k)
    \/ \E a \in Agents, p \in PortNos : UpdateLock(a, p)
    \/ \E a \in Agents, s \in OperStatuses, o \in KvOutcomes : UpdateSend(a, s, o)
    \/ \E a \in Agents, dev \in Devices : DeleteBegin(a, dev)
    \/ \E a \in Agents, p \in PortNos : DeleteLock(a, p)
    \/ \E a \in Agents, o \in KvOutcomes : DeleteSend(a, o)
    \/ \E a \in Agents : DeleteEnd(a)
    \/ \E a \in Agents : DeleteAllBegin(a)
    \/ \E a \in Agents, p \in PortNos : DeleteAllLock(a, p)
    \/ \E a \in Agents, o \in KvOutcomes : DeleteAllDelete(a, o)
    \/ \E a \in Agents : DeleteAllSend(a)
    \/ \E a \in Agents : DeleteAllEnd(a)

AgentSpec == InitAgent /\ [][NextAgent]_vars

\* the steps that continue a call already made or a goroutine already
\* started; the Go scheduler runs a goroutine that can take a step
AgentStep ==
    \/ \E a \in Agents : AddAssign(a) \/ AddReturn(a) \/ DeleteEnd(a) \/ DeleteAllSend(a) \/ DeleteAllEnd(a)
    \/ \E a \in Agents, s \in OperStatuses, o \in KvOutcomes : UpdateSend(a, s, o)
    \/ \E a \in Agents, p \in PortNos : DeleteLock(a, p) \/ DeleteAllLock(a, p)
    \/ \E a \in Agents, o \in KvOutcomes : DeleteSend(a, o) \/ DeleteAllDelete(a, o)
    \/ \E k \in DOMAIN positions : GoListIDs(k) \/ GoSend(k) \/ QpWait(k) \/ QpNotify(k)
    \/ \E k \in DOMAIN positions, p \in PortNos : GoListPort(k, p)

AgentLiveSpec == InitAgent /\ [][NextAgent]_vars /\ WF_vars(AgentStep)

\* ------------------------------------------------------------------ claims
\* No UnSubscribe, DeleteTopic or Stop has had an effect yet.
NothingTornDown ==
    /\ \A ch \in ChanIds : ~chanClosed[ch]
    /\ \A c \in ConsumerIds : brokerConsumers[c].closes = 0
    /\ stopsDone = 0
    /\ \A p \in Procs : pc[p] \notin {"stop_send", "stop_close", "stop_clear"}

\* the consumers created by a Subscribe that returned a channel
SetUp(t) == {c \in ConsumerIds : brokerConsumers[c].topic = t /\ brokerConsumers[c].cc # 0}

\* C1: as long as nothing has been torn down, the Subscribe calls of a topic
\* that succeeded have created its broker-level consumers once: all of them
\* belong to one consumerChannels object.
C1_ConsumersCreatedOnce ==
    NothingTornDown =>
        \A t \in Topics : \A c1, c2 \in SetUp(t) : brokerConsumers[c1].cc = brokerConsumers[c2].cc

\* C2: no fan-out sender sends on a subscriber channel that has been closed.
C2_NoSendOnClosedChannel == panicMsg # SendOnClosedChannel

\* C3: no subscriber channel is closed a second time.
C3_NoDoubleClose == panicMsg # CloseOfClosedChannel

\* a step in which a Stop runs clearConsumerChannelMap: it returns, or the
\* clearing panics (no other step that keeps callsLeft closes a channel twice)
StopClears ==
    /\ callsLeft' = callsLeft
    /\ \E p \in Procs : /\ pc[p] = "stop_clear"
                        /\ pc'[p] = "idle" \/ (Alive /\ panicMsg' = CloseOfClosedChannel)

\* C4: the Stop that clears the registry returns, the registry then has no
\* entry, and Close has been called on the consumer of every loop that is
\* still running, so that its stream yields nil and the loop ends.
C4_StopEndsLoopsAndEmptiesRegistry ==
    [][StopClears =>
          /\ panicMsg' = ""
          /\ \A t \in Topics : topicToConsumerChannelMap'[t] = 0
          /\ \A c \in ConsumerIds : running[c] > 0 => brokerConsumers'[c].closes > 0]_vars

\* a step in which a loop that was running when Stop signalled takes its
\* shutdown branch
ObservesShutdown(c) == exitedDone'[c] > exitedDone[c] /\ preStop'[c] < preStop[c]

\* C5: when one of the loops that were running at Stop's signal takes its
\* shutdown branch while others of them are still running, the signal stays
\* observable for those.
C5_EveryLoopObservesShutdown ==
    [][\A c \in ConsumerIds :
          (ObservesShutdown(c) /\ \E c2 \in DOMAIN preStop' : preStop'[c2] > 0) => doneCh' = 1]_vars

\* a step in which the Stop call of p, made after an earlier Stop had
\* returned, gets through its Close calls
SecondStopCloses(p) == pc[p] = "stop_close" /\ stopsBefore[p] >= 1 /\ pc'[p] = "stop_clear"

\* C6: a Stop made after a Stop has returned does not panic and calls Close
\* on no handle that is already closed.
C6_SecondStopClosesNothing ==
    /\ [][\A p \in Procs : SecondStopCloses(p) =>
            /\ producer.closes >= 1 => producer'.closes = producer.closes
            /\ consumer.closes >= 1 => consumer'.closes = consumer.closes
            /\ cAdmin.closes >= 1 => cAdmin'.closes = cAdmin.closes
            /\ (groupConsumer # 0 /\ IsClosed(groupConsumer)) =>
                  brokerConsumers'[groupConsumer].closes = brokerConsumers[groupConsumer].closes]_vars
    /\ [][\A p \in Procs : (stopsBefore[p] >= 1 /\ pc[p] \in {"stop_close", "stop_clear"}) =>
            panicMsg' = panicMsg]_vars

\* a step in which UnSubscribe(t, ch) returns after removing the only channel
\* of the entry of t
RemovesLast(t) ==
    /\ topicToConsumerChannelMap[t] # 0
    /\ Len(Entry(t).channels) = 1
    /\ callsLeft' = callsLeft - 1
    /\ ret'.op = "UnSubscribe" /\ ret'.topic = t /\ ret'.ch = Entry(t).channels[1]

\* a step in which a Subscribe registers an entry for t
Registers(t) == topicToConsumerChannelMap[t] = 0 /\ topicToConsumerChannelMap'[t] # 0

\* C7: the UnSubscribe that removes the last channel of a topic closes the
\* channel, calls Close on every consumer of the entry and deletes the entry
\* in one step; an entry registered for a topic is a new object whose
\* consumers are new and have never been closed.
C7_LastUnSubscribeTearsDown ==
    [][\A t \in Topics :
          /\ RemovesLast(t) =>
                /\ topicToConsumerChannelMap'[t] = 0
                /\ chanClosed'[Entry(t).channels[1]]
                /\ \A c \in Range(Entry(t).consumers) :
                      brokerConsumers'[c].closes = brokerConsumers[c].closes + 1
          /\ Registers(t) =>
                /\ topicToConsumerChannelMap'[t] \notin DOMAIN heap
                /\ \A c \in Range(heap'[topicToConsumerChannelMap'[t]].consumers) :
                      c \notin ConsumerIds /\ brokerConsumers'[c].closes = 0]_vars

\* a topic subscribed again after an UnSubscribe took its last channel: an
\* older object of the topic has its channel and consumers closed, the
\* registered one is open
C7_Resubscribed ==
    \E t \in Topics : \E old \in DOMAIN heap :
        /\ topicToConsumerChannelMap[t] # 0 /\ old # topicToConsumerChannelMap[t]
        /\ heap[old].channels = <<>>
        /\ \A c \in Range(heap[old].consumers) : brokerConsumers[c].topic = t /\ IsClosed(c)
        /\ \A c \in Range(Entry(t).consumers) : ~IsClosed(c)
        /\ ret.op = "Subscribe" /\ ret.topic = t /\ ret.err = ""

\* a step in which the Subscribe of p returns a channel
SubscribeReturns(p) == pc[p] \in {"sub_add", "sub_setup"} /\ pc'[p] = "idle" /\ ret'.err = ""

\* C8: the channel a Subscribe returns is one of the channels of the entry
\* registered for its topic.
C8_ReturnedChannelAttached ==
    [][\A p \in Procs : SubscribeReturns(p) =>
          /\ topicToConsumerChannelMap'[ptopic[p]] # 0
          /\ ret'.ch \in Range(heap'[topicToConsumerChannelMap'[ptopic[p]]].channels)]_vars

\* C9: an entry that a clear has begun to tear down is torn down completely:
\* once one of the channels it holds is closed, all of them are, Close has
\* been called on each of its consumers and it is no longer registered.
C9_ClearTearsDownCompletely ==
    \A cc \in DOMAIN heap :
        (\E ch \in Range(heap[cc].channels) : chanClosed[ch]) =>
            /\ \A ch \in Range(heap[cc].channels) : chanClosed[ch]
            /\ \A c \in Range(heap[cc].consumers) : IsClosed(c)
            /\ \A t \in Topics : topicToConsumerChannelMap[t] # cc

\* the record numbered q has been received on channel ch
Got(ch, q) == ch \in ChanIds /\ \E i \in 1..Len(received[ch]) : received[ch][i].seq = q

\* the fan-out of the envelope decoded from record q has a sender for ch waiting
Pending(ch, q) == \E s \in senders : s.ch = ch /\ s.seq = q

\* the channels the envelope of record q was fanned out to
FannedTo(q) == {ch \in ChanIds : Pending(ch, q) \/ Got(ch, q)}

\* sender s has not delivered yet and none of the channels of its fan-out
\* has been removed
Owed(s) == \A ch \in FannedTo(s.seq) : ~chanClosed[ch]

\* what a channel has received is what was sent, each record once
DeliveredAsSent ==
    \A ch \in ChanIds : \A i \in 1..Len(received[ch]) :
        /\ received[ch][i].env = received[ch][i].sent
        /\ \A j \in 1..Len(received[ch]) : received[ch][i].seq = received[ch][j].seq => i = j

\* C10: an envelope that has been fanned out is received, equal to what was
\* sent and once, on every channel it was fanned out to, unless one of those
\* channels is removed: what has been received is as sent, and a sender that
\* owes a delivery can make it (under the fairness of LiveSpec it then does).
C10_FanOutCompletes ==
    /\ DeliveredAsSent
    /\ \A s \in senders : Owed(s) => ENABLED SenderSend(s)

\* no Stop is under way and the process has not panicked
AtRest == Alive /\ \A p \in Procs : pc[p] \notin {"stop_send", "stop_close", "stop_clear"}

\* C11: outside a Stop, a topic has an entry exactly when one of the
\* broker-level consumers created for it is open.
C11_EntryIffOpenConsumer ==
    AtRest => \A t \in Topics : topicToConsumerChannelMap[t] # 0 <=> OpenConsumers(t) # {}

\* a step in which the Stop of p clears the registry and returns
StopClearReturns(p) == pc[p] = "stop_clear" /\ pc'[p] = "idle" /\ callsLeft' = callsLeft

\* C12: the consumers on which the clearing of Stop calls Close have no
\* second owner through which Close was called on them before (by the same
\* Stop, on the client's own handles).
C12_StopClosesOnce ==
    [][\A p \in Procs : StopClearReturns(p) =>
          \A c \in ConsumerIds :
              brokerConsumers'[c].closes > brokerConsumers[c].closes =>
                  brokerConsumers[c].closes = 0]_vars

\* C13: the UnSubscribe that removes the last channel of a topic returns an
\* error exactly when the Close of one of the topic's consumers returned an
\* error other than "unknown topic or partition", whatever the order of the
\* consumers.
C13_UnSubscribeErrorIffCloseFailed ==
    [][\A t \in Topics : RemovesLast(t) =>
          (ret'.err # "" <=>
              \E c \in Range(Entry(t).consumers) : brokerConsumers'[c].result = "error")]_vars

\* a sender of the envelope of d for channel ch
SenderOf(d, ch) == [ch |-> ch, c |-> d.c, seq |-> d.seq, env |-> d.env, sent |-> d.sent]

\* C14: a channel made by a later Subscribe starts with nothing received and
\* nothing on its way, a fan-out reaches only channels that exist when it is
\* made, and it reaches every channel the object of its loop holds then;
\* while no channel has been closed each of its senders can deliver.
C14_FanOutToSubscribedThen ==
    /\ [][/\ \A ch \in (1..Len(chanClosed')) \ ChanIds :
                received'[ch] = <<>> /\ \A s \in senders' : s.ch # ch
          /\ \A s \in senders' \ senders : s.ch \in ChanIds
          /\ \A d \in dispatches \ dispatches' : \A ch \in Range(heap[d.cc].channels) :
                SenderOf(d, ch) \in senders']_vars
    /\ [](( \A ch \in ChanIds : ~chanClosed[ch]) => \A s \in senders : ENABLED SenderSend(s))

\* the first channel has received the first and the second record, the channel
\* subscribed later only the second; both are channels of the topic's entry
C14_SecondOnlyOnLater ==
    /\ topicToConsumerChannelMap[LiveTopic] # 0
    /\ Entry(LiveTopic).channels = <<1, 2>>
    /\ \A ch \in ChanIds : ~chanClosed[ch]
    /\ Got(1, 1) /\ Got(1, 2) /\ Got(2, 2) /\ ~Got(2, 1)
    /\ senders = {} /\ dispatches = {}

\* a step in which a Send returns
SendReturns ==
    callsLeft' = callsLeft - 1 /\ ret'.op = "Send" /\ pc' = pc /\ panicMsg' = panicMsg

\* C15: Send of a payload that is no proto message returns the
\* not-a-proto-message error and leaves the producer input as it is; a Send
\* that returns this error has enqueued nothing, and no Send touches the
\* registry.
C15_SendRefusesNonEnvelope ==
    /\ [](\A t \in Topics :
             SendResult(NotProto, t) = [err |-> "not-a-proto-msg", input |-> producerInput])
    /\ [][SendReturns =>
             /\ ret'.err = "not-a-proto-msg" => producerInput' = producerInput
             /\ ret'.err = "" => Len(producerInput') = Len(producerInput) + 1
             /\ UNCHANGED registryVars]_vars

\* a Send was refused while a topic is subscribed and a record is waiting
C15_Refused ==
    /\ ret.op = "Send" /\ ret.err = "not-a-proto-msg"
    /\ Registered # {} /\ producerInput # <<>>

\* C16: in every state, a DeleteTopic to which the broker answers that the
\* topic is unknown returns no error, and so does the same call repeated.
C16_DeleteUnknownTopicSucceeds ==
    \A t \in Topics :
        LET once == DeleteTopicResult(RegistryState, t, "unknown-topic", <<>>)
            twice == DeleteTopicResult(once, t, "unknown-topic", <<>>)
        IN once.err = "" /\ once.panic = panicMsg /\ twice.err = "" /\ twice.panic = panicMsg

\* a DeleteTopic has returned success and its topic still has its entry: the
\* broker answered that the topic is unknown
C16_DeletedUnknown ==
    /\ ret.op = "DeleteTopic" /\ ret.err = ""
    /\ topicToConsumerChannelMap[ret.topic] # 0

\* a step in which an UnSubscribe returns
UnSubscribeReturns ==
    callsLeft' = callsLeft - 1 /\ ret'.op = "UnSubscribe" /\ pc' = pc /\ panicMsg' = panicMsg

\* C17: UnSubscribe for a topic that has no entry returns the
\* topic-does-not-exist error and changes nothing in the registry: no channel
\* and no consumer is closed.
C17_UnSubscribeUnknownTopic ==
    /\ [](\A t \in Topics : \A ch \in ChanIds :
             topicToConsumerChannelMap[t] = 0 =>
                 removeChannelFromConsumerChannelMap(RegistryState, t, ch, <<>>)
                     = [RegistryState EXCEPT !.err = "topic-does-not-exist"])
    /\ [][(UnSubscribeReturns /\ topicToConsumerChannelMap[ret'.topic] = 0) =>
             ret'.err = "topic-does-not-exist" /\ UNCHANGED registryVars]_vars

\* an UnSubscribe was refused for a topic without entry while another topic
\* is subscribed
C17_RefusedUnknownTopic ==
    /\ ret.op = "UnSubscribe" /\ ret.err = "topic-does-not-exist"
    /\ topicToConsumerChannelMap[ret.topic] = 0
    /\ Registered # {}
    /\ \A ch \in ChanIds : ~chanClosed[ch]
    /\ \A c \in ConsumerIds : ~IsClosed(c)

\* C18: on a client whose consumer type is neither partition nor group no
\* entry, no consumer, no channel and no loop ever exists, and every Subscribe
\* returns the unknown-consumer-type error.
C18_UnknownConsumerType ==
    /\ [](consumerType = UnknownConsumer =>
             /\ Registered = {} /\ heap = <<>> /\ brokerConsumers = <<>> /\ chanClosed = <<>>
             /\ running = <<>> /\ \A t \in Topics : starters[t] = 0)
    /\ [][\A p \in Procs :
             (consumerType = UnknownConsumer /\ pc[p] \in {"sub_add", "sub_setup"} /\ pc'[p] = "idle") =>
                 ret' = [op |-> "Subscribe", topic |-> ptopic[p], ch |-> 0,
                         err |-> "unknown-consumer-type"]]_vars

\* a Subscribe has been refused for the unknown consumer type
C18_RefusedUnknownType ==
    /\ consumerType = UnknownConsumer
    /\ ret.op = "Subscribe" /\ ret.err = "unknown-consumer-type"

\* the step of Start
StartReturns == startResult = "none" /\ startResult' # "none"

\* C19: Start creates the admin handle, then the producer, then the raw
\* consumer: a handle exists only if the ones before it do; when a creation
\* fails Start returns that error, the failed and the later handles do not
\* exist, and the earlier ones exist and have not been closed.
C19_StartFailsFast ==
    /\ [](/\ consumer.created => producer.created
          /\ producer.created => cAdmin.created)
    /\ [][StartReturns =>
             /\ ret'.op = "Start"
             /\ cAdmin'.closes = 0 /\ producer'.closes = 0 /\ consumer'.closes = 0
             /\ ret'.err = "" => cAdmin'.created /\ producer'.created /\ consumer'.created
             /\ ret'.err = "admin" => ~cAdmin'.created
             /\ ret'.err = "producer" => cAdmin'.created /\ ~producer'.created
             /\ ret'.err = "consumer" => producer'.created /\ ~consumer'.created]_vars

\* Start has failed on the producer and has left the admin handle open
C19_FailedOnProducer ==
    /\ ret.op = "Start" /\ ret.err = "producer"
    /\ cAdmin.created /\ cAdmin.closes = 0
    /\ ~producer.created /\ ~consumer.created

\* a step in which a DeleteTopic returns
DeleteTopicReturns ==
    callsLeft' = callsLeft - 1 /\ ret'.op = "DeleteTopic" /\ pc' = pc /\ panicMsg' = panicMsg

\* what a successful DeleteTopic of topic t leaves behind: no entry for t, and
\* every channel and consumer of the entry t had is closed
TopicTornDown(t) ==
    /\ topicToConsumerChannelMap'[t] = 0
    /\ topicToConsumerChannelMap[t] # 0 =>
          /\ \A ch \in Range(Entry(t).channels) : chanClosed'[ch]
          /\ \A c \in Range(Entry(t).consumers) : brokerConsumers'[c].closes > 0

\* C20: whenever DeleteTopic returns success, its topic has no entry
\* afterwards and every subscriber channel and consumer its entry held has
\* been closed, also when the broker reports the topic as unknown.
C20_DeleteTopicSuccessClears ==
    [][(DeleteTopicReturns /\ ret'.err = "") => TopicTornDown(ret'.topic)]_vars

\* C21: at any time at most one consumption loop is running for each
\* broker-level consumer.
C21_OneLoopPerConsumer == \A c \in ConsumerIds : running[c] <= 1

\* C22: while senders are waiting for a subscriber that does not receive,
\* every other sender can deliver on its open channel, every loop with a
\* record on its stream can take it, every pending fan-out can be made, and
\* the registry lock is free: a Subscribe under way can complete and an
\* UnSubscribe can be made.
C22_BlockedSubscriberDelaysNothing ==
    (Alive /\ senders # {}) =>
        /\ \A s \in senders : ~chanClosed[s.ch] => ENABLED (SenderSend(s) /\ s \notin senders')
        /\ \A c \in ConsumerIds :
              (running[c] > 0 /\ brokerConsumers[c].messages # <<>>) => ENABLED LoopMessage(c)
        /\ \A d \in dispatches : ENABLED Dispatch(d)
        /\ \A p \in Procs : pc[p] = "sub_add" => ENABLED SubscribeAdd(p)
        /\ \A p \in Procs : pc[p] = "sub_setup" => ENABLED SubscribeSetup(p, SetupSize)
        /\ \A p \in Procs :
              CanCall(p) => \E ch \in ChanIds : ENABLED UnSubscribe(p, LiveTopic, ch, AllOk(LiveTopic))

\* the subscriber of channel 1 has received neither the first nor the second
\* record, the subscriber of channel 2 has received both, and a Subscribe made
\* after that has returned a third channel
C22_OthersServed ==
    /\ Pending(1, 1) /\ Pending(1, 2)
    /\ Got(2, 1) /\ Got(2, 2)
    /\ ret.op = "Subscribe" /\ ret.ch = 3 /\ ret.err = ""

\* C23: within one consumer the fan-outs are made in arrival order: when the
\* fan-out of a record is made, no earlier record of the same consumer is
\* still waiting for its fan-out.
C23_FanOutInArrivalOrder ==
    [][\A d \in dispatches \ dispatches' :
          \A e \in dispatches' : e.c = d.c => e.seq > d.seq]_vars

\* C24: the order in which a channel receives is not the arrival order: of two
\* envelopes of one consumer that wait for the same open channel, the later
\* one can be received while the earlier one still waits.
C24_LaterCanOvertake ==
    \A s1, s2 \in senders :
        (Alive /\ s1.ch = s2.ch /\ s1.c = s2.c /\ s1.seq < s2.seq /\ ~chanClosed[s1.ch]) =>
            ENABLED (SenderSend(s2) /\ s1 \in senders' /\ s2 \notin senders')

\* one partition consumer took record 1 before record 2 and both were fanned
\* out to channels 1 and 2; channel 1 has received record 2 while record 1
\* still waits for it
C24_ReceivedOutOfOrder ==
    \E s1, s2 \in senders :
        /\ s1.ch = 1 /\ s1.seq = 1 /\ s2.ch = 2 /\ s2.seq = 2 /\ s1.c = s2.c
        /\ brokerConsumers[s1.c].kind = "partition" /\ running[s1.c] = 1
        /\ received[1] = <<[seq |-> 2, env |-> s2.env, sent |-> s2.sent]>>
        /\ ~chanClosed[1]

\* the loops of consumer c take an error, a notification or a record that
\* does not decode off its streams
TakesNonFatal(c) ==
    \/ brokerConsumers'[c].errors < brokerConsumers[c].errors
    \/ brokerConsumers'[c].notifications < brokerConsumers[c].notifications
    \/ /\ Len(brokerConsumers'[c].messages) < Len(brokerConsumers[c].messages)
       /\ Unmarshal(Head(brokerConsumers[c].messages).value) = DecodeError

\* C25: a loop ends only on a nil message (its consumer is closed) or by
\* taking the shutdown signal off doneCh; taking an error, a notification or a
\* record that does not decode ends no loop, and a running loop can take the
\* next record of its stream.
C25_LoopEndsOnlyOnNilOrDone ==
    /\ [](\A c \in ConsumerIds :
             (Alive /\ running[c] > 0 /\ brokerConsumers[c].messages # <<>>) => ENABLED LoopMessage(c))
    /\ [][\A c \in ConsumerIds :
             /\ running'[c] < running[c] =>
                   \/ IsClosed(c) /\ exitedNil'[c] = exitedNil[c] + 1 /\ doneCh' = doneCh
                   \/ doneCh = 1 /\ doneCh' = 0 /\ exitedDone'[c] = exitedDone[c] + 1
             /\ TakesNonFatal(c) => running' = running]_vars

\* the loop of the only group consumer has taken a foreign record that does
\* not decode (record 1) and after it the record of the one Send made
\* (record 2), and is still running
C25_WentOnAfterGarbage ==
    /\ consumerType = GroupCustomer /\ Len(brokerConsumers) = 1
    /\ running = <<1>>
    /\ eventsLeft = 0 /\ callsLeft = MaxCalls - 2 /\ nextSeq = 3
    /\ brokerConsumers[1].messages = <<>>
    /\ marked = {2}
    /\ \E d \in dispatches : d.c = 1 /\ d.seq = 2

\* C26: a loop running on a closed consumer can always take the nil message
\* and end, a closed consumer stays closed and no further loop is started on
\* it: under the fairness of LiveSpec the loops of a topic whose last channel
\* was removed by UnSubscribe all end.
C26_LoopsOfClosedConsumerEnd ==
    /\ [](\A c \in ConsumerIds :
             (Alive /\ IsClosed(c) /\ running[c] > 0) =>
                 ENABLED (\E old \in BOOLEAN : LoopNil(c, old) /\ running'[c] = running[c] - 1))
    /\ [][\A c \in ConsumerIds :
             IsClosed(c) => brokerConsumers'[c].closes > 0 /\ running'[c] <= running[c]]_vars

\* UnSubscribe has removed the last channel of the topic, no Stop has been
\* called, and every loop of the topic's consumers has ended on a nil message
C26_AllEndedAfterUnSubscribe ==
    /\ ret.op = "UnSubscribe" /\ ret.err = ""
    /\ Registered = {}
    /\ stopsDone = 0 /\ AtRest /\ doneCh = 0
    /\ Len(brokerConsumers) = NumPartitions
    /\ \A c \in ConsumerIds : IsClosed(c) /\ running[c] = 0 /\ exitedNil[c] = 1

\* the loops of consumer c take the first record of its message stream
TakesRecord(c) ==
    /\ brokerConsumers[c].messages # <<>>
    /\ brokerConsumers'[c].messages = Tail(brokerConsumers[c].messages)

\* C27: in the group strategy the offset of a record is marked in the step in
\* which a loop takes the record, decodes it and hands it to the fan-out: it
\* was not marked before, nothing else is marked, and no subscriber receives
\* anything in that step; nothing is marked in any other step.
C27_MarkOffsetOncePerDecoded ==
    /\ [][\A c \in ConsumerIds :
             (TakesRecord(c) /\ brokerConsumers[c].kind = "group"
                /\ Unmarshal(Head(brokerConsumers[c].messages).value) # DecodeError) =>
                 LET m == Head(brokerConsumers[c].messages) IN
                 /\ m.seq \notin marked /\ marked' = marked \cup {m.seq}
                 /\ \E d \in dispatches' \ dispatches : d.c = c /\ d.seq = m.seq
                 /\ received' = received /\ senders' = senders]_vars
    /\ [][marked' # marked =>
             \E c \in ConsumerIds : TakesRecord(c) /\ brokerConsumers[c].kind = "group"]_vars

\* the offset of a record is marked, its fan-out has not been made and no
\* subscriber has received it
C27_MarkedBeforeReceipt ==
    \E d \in dispatches :
        /\ d.seq \in marked
        /\ heap[d.cc].channels # <<>>
        /\ \A ch \in ChanIds : ~Got(ch, d.seq) /\ ~chanClosed[ch]

\* C28: a record that does not decode is dropped: the step that takes it
\* starts no fan-out, marks no offset and puts the record on no consumer's
\* stream again, and nothing that is fanned out, waits for a channel or has
\* been received comes from such a record.
C28_UndecodableDropped ==
    /\ [](/\ \A d \in dispatches : d.sent # Foreign /\ d.env # DecodeError
          /\ \A s \in senders : s.sent # Foreign /\ s.env # DecodeError
          /\ \A ch \in ChanIds : \A i \in 1..Len(received[ch]) :
                received[ch][i].sent # Foreign /\ received[ch][i].env # DecodeError)
    /\ [][\A c \in ConsumerIds :
             (TakesRecord(c) /\ Unmarshal(Head(brokerConsumers[c].messages).value) = DecodeError) =>
                 /\ dispatches' = dispatches /\ senders' = senders /\ received' = received
                 /\ marked' = marked
                 /\ running' = running
                 /\ \A o \in ConsumerIds \ {c} :
                       brokerConsumers'[o].messages = brokerConsumers[o].messages]_vars

\* the loop of the only group consumer has taken the one record the broker
\* delivered, a foreign record that does not decode: nothing was fanned out,
\* received or marked
C28_GarbageTaken ==
    /\ consumerType = GroupCustomer /\ Len(brokerConsumers) = 1 /\ running = <<1>>
    /\ eventsLeft = 0 /\ nextSeq = 2 /\ producerInput = <<>>
    /\ brokerConsumers[1].messages = <<>>
    /\ marked = {} /\ dispatches = {} /\ senders = {}
    /\ ChanIds # {} /\ \A ch \in ChanIds : received[ch] = <<>>

\* C29: closeConsumers calls Close on every consumer of an entry whatever the
\* Close calls return, and the clearing of the registry by Stop calls Close on
\* the consumers of every entry and deletes every entry whatever they return.
C29_CloseFailureStopsNothing ==
    /\ [](\A t \in Registered : \A o \in CloseResults(RegistryState, t) :
             \A c \in Range(Entry(t).consumers) :
                 closeConsumers(brokerConsumers, Entry(t).consumers, o)[c].closes
                     = brokerConsumers[c].closes + 1)
    /\ [][StopClears =>
             \A t \in Registered :
                 /\ topicToConsumerChannelMap'[t] = 0
                 /\ \A c \in Range(Entry(t).consumers) :
                       brokerConsumers'[c].closes = brokerConsumers[c].closes + 1]_vars

\* Start has returned an error
FailedStart == startResult \in {"admin", "producer", "consumer"}

Closes(h) == IF h.created THEN 1 ELSE 0

\* C30: after a failed Start the first Stop can put its value on doneCh, can
\* then close its handles without a panic when every Close succeeds, calling
\* Close once on each handle Start created and on no other, and can then
\* clear the (empty) registry and return.
C30_StopAfterFailedStart ==
    /\ []((FailedStart /\ Alive) =>
             /\ Registered = {} /\ groupConsumer = 0
             /\ \A p \in Procs :
                   (pc[p] = "stop_send" /\ stopsDone = 0
                      /\ \A q \in Procs : pc[q] \notin {"stop_close", "stop_clear"}) =>
                       ENABLED StopSend(p)
             /\ \A p \in Procs : pc[p] = "stop_close" => ENABLED StopClose(p, 5)
             /\ \A p \in Procs : pc[p] = "stop_clear" =>
                   ENABLED (StopClear(p, <<>>, [t \in Topics |-> <<>>])
                               /\ pc'[p] = "idle" /\ panicMsg' = ""))
    /\ [][\A p \in Procs :
             (FailedStart /\ pc[p] = "stop_close" /\ pc'[p] = "stop_clear") =>
                 /\ cAdmin'.closes = cAdmin.closes + Closes(cAdmin)
                 /\ producer'.closes = producer.closes + Closes(producer)
                 /\ consumer'.closes = consumer.closes + Closes(consumer)
                 /\ brokerConsumers' = brokerConsumers]_vars

\* Start failed on the producer, and the Stop made after it has returned: the
\* admin handle has been closed once and nothing else
C30_StoppedAfterFailedStart ==
    /\ startResult = "producer" /\ Alive
    /\ ret.op = "Stop" /\ stopsDone = 1
    /\ cAdmin.closes = 1 /\ producer.closes = 0 /\ consumer.closes = 0

\* C31: UnSubscribe(t, ch) on an entry that holds two or more channels, one of
\* them ch, closes ch and nothing else and leaves the other channels attached,
\* the consumers untouched and every other entry as it is; when ch is not a
\* channel of the entry of t, it changes nothing and returns no error.
C31_UnSubscribeRemovesOnlyItsChannel ==
    Alive => \A t \in Registered : \A ch \in ChanIds : \A o \in CloseResults(RegistryState, t) :
        LET cc == topicToConsumerChannelMap[t]
            st == removeChannelFromConsumerChannelMap(RegistryState, t, ch, o)
        IN /\ (ch \in Range(heap[cc].channels) /\ Len(heap[cc].channels) >= 2) =>
                 /\ st.panic = panicMsg /\ st.err = ""
                 /\ st.closed = [chanClosed EXCEPT ![ch] = TRUE]
                 /\ Range(st.heap[cc].channels) = Range(heap[cc].channels) \ {ch}
                 /\ Len(st.heap[cc].channels) = Len(heap[cc].channels) - 1
                 /\ st.heap[cc].consumers = heap[cc].consumers
                 /\ \A other \in DOMAIN heap \ {cc} : st.heap[other] = heap[other]
                 /\ st.map = topicToConsumerChannelMap
                 /\ st.bc = brokerConsumers
           /\ ch \notin Range(heap[cc].channels) => st = RegistryState

\* an UnSubscribe has removed one of the two channels of a topic: the channel
\* is closed, the other one is open and attached, the consumers are open
C31_OneOfTwoRemoved ==
    /\ ret.op = "UnSubscribe" /\ ret.err = "" /\ chanClosed[ret.ch]
    /\ topicToConsumerChannelMap[ret.topic] # 0
    /\ Len(Entry(ret.topic).channels) = 1
    /\ \A ch \in Range(Entry(ret.topic).channels) : ~chanClosed[ch]
    /\ \A c \in Range(Entry(ret.topic).consumers) : ~IsClosed(c)

\* ------------------------------------------ claims on the logical agent
AllSent == \A k \in DOMAIN positions : positions[k].st = "done"

\* C32: orderedEvents calls SendChangeEvent in the order in which the queue
\* positions were assigned, whatever the order of the send calls: the n-th
\* call of SendChangeEvent is for the n-th position assigned, and it is made
\* only when the call for every earlier position has returned
C32_SentInAssignedOrder ==
    /\ \A n \in DOMAIN sentEvents : sentEvents[n] = n
    /\ \A k \in DOMAIN positions :
          positions[k].st \in {"calling", "done"} => \A j \in 1..(k - 1) : positions[j].st = "done"

\* both events are sent, and send was called on the later position first
C32_LaterSendCalledFirst ==
    \E j, k \in DOMAIN positions :
        /\ j < k /\ positions[k].called # 0 /\ positions[k].called < positions[j].called
        /\ positions[j].st = "done" /\ positions[k].st = "done"

\* C33: orderedEvents does not deadlock while events back up: when the
\* goroutines that can take a step do take one (send gets called on every
\* position assigned, every SendChangeEvent call returns), every queued event
\* is sent in the end, however many positions are assigned and in whatever
\* order send is called on them
C33_EveryQueuedEventSent == <>[]AllSent

\* three events or more are all sent, and send was called on the first
\* position after it was called on all the others, which had backed up
C33_BackedUpThenSent ==
    /\ Len(positions) >= 3 /\ AllSent
    /\ positions[1].called = Len(positions)

ReasonsFor(seq, p) ==
    LET s == SelectSeq(seq, LAMBDA e : e.portNo = p)
    IN [i \in DOMAIN s |-> s[i].reason]

IsPrefix(s, t) == Len(s) <= Len(t) /\ \A i \in DOMAIN s : s[i] = t[i]

\* C34: for each port number the change events are queued in the order of
\* the port's state changes: the reasons of the queue positions of a port
\* are, in order, the creations (ADD), updates (MODIFY) and deletions
\* (DELETE) the port went through, so a DELETE is queued before the ADD of a
\* later re-creation
C34_QueuedInChangeOrder ==
    \A p \in PortNos : IsPrefix(ReasonsFor(positions, p), ReasonsFor(portChanges, p))

====
